---- MODULE Spec2Model ----
(***************************************************************************)
(* A model of glaze_bot.py: the GitHub-backed JSON store (load_data /      *)
(* save_data with the module-level cache and the asyncio lock), the        *)
(* moderation buttons, the /glaze, /randomdrop and /controlpanel commands  *)
(* and the one-minute scheduler.                                           *)
(*                                                                         *)
(* Execution model.  The bot is one asyncio event loop: exactly one        *)
(* coroutine runs at a time and control changes hands only where a         *)
(* coroutine really suspends: an HTTP call to GitHub (made while holding   *)
(* _store_lock), a Discord send, or an acquire of _store_lock that is      *)
(* contended (asyncio.Lock is FIFO: an acquire goes to the back of the     *)
(* queue whenever waiters exist).  `running` holds the coroutine that has  *)
(* the loop; an action of a coroutine that continues synchronously needs   *)
(* running = p, a resumption needs running = "none".                       *)
(*                                                                         *)
(* Python objects.  load_data returns the cached dict itself, not a copy,  *)
(* so every handler mutates the object the cache points to; save_data      *)
(* replaces the cache with a deep copy only when the PUT succeeded.  The   *)
(* model therefore keeps a heap of Document objects and references to it.  *)
(***************************************************************************)
EXTENDS Integers, Sequences, FiniteSets, TLC

(* ---------------------------------------------------------------------- *)
(* Bounds                                                                  *)
(* ---------------------------------------------------------------------- *)
\* members of the guild that send and receive glazes
NUsers == 2
\* glazes that /glaze may append during a run (on top of the initial ones)
MaxNew == 1
\* backend failures (a non-2xx answer other than 404 / 409) injected in a run
MaxFaults == 1
\* instants the clock may pass in a run; an instant is one scheduler minute
\* of interest
MaxTime == 2
\* glazes in the document the run starts from
NInit == 1
\* days in a month of the model's calendar
DaysPerMonth == 2
\* glazes in the document a run of the scheduler alone starts from
NQueue == 3

\* monthly wins a member may have when /force_winner is invoked
MaxWins == 2

\* glazes in the document whose month is tallied
NTally == 4

\* glazes that /glaze may append when members submit at the same time
MaxSubmits == 2

\* the bounds of a glaze's length
MinText == 10
MaxText == 500

Users == 1..NUsers
Handlers == {"h1", "h2", "h3"}
Sched == "sched"
Procs == Handlers \cup {Sched}

\* Python's None, and a present value
None == <<>>
Some(x) == <<x>>
IsSome(o) == o # <<>>
Val(o) == o[1]

(* ---------------------------------------------------------------------- *)
(* Civil time in Europe/London                                             *)
(* ---------------------------------------------------------------------- *)
DEFAULT_DAILY_DROP_HOUR == 17
MONTHLY_DROP_HOUR == 18
\* The hour:minute values a day of the model passes through (the minute is
\* always :00): midnight, the default daily drop time, the monthly time.
DayHours == <<0, DEFAULT_DAILY_DROP_HOUR, MONTHLY_DROP_HOUR>>
SlotsPerDay == Len(DayHours)
HourOf(t) == DayHours[(t % SlotsPerDay) + 1]
\* now_ldn.strftime("%Y-%m-%d")
DateOf(t) == t \div SlotsPerDay
\* now_ldn.strftime("%Y-%m")
MonthOf(date) == date \div DaysPerMonth
\* The date of the same instant in UTC.  The model's year is in British
\* Summer Time: London's 00:00 is 23:00 UTC of the day before.
UtcDateOf(t) == IF HourOf(t) = 0 THEN DateOf(t) - 1 ELSE DateOf(t)
\* month_key(now_utc()): strftime("%Y-%m") of the UTC datetime
month_key(t) == MonthOf(UtcDateOf(t))
\* hours between the epoch and an instant (for timedelta arithmetic)
HoursAt(t) == 24 * DateOf(t) + HourOf(t)
\* a run begins at midnight of the last day of the first month and ends
\* MaxTime instants later
FirstInstant == (DaysPerMonth - 1) * SlotsPerDay
LastInstant == FirstInstant + MaxTime

(* ---------------------------------------------------------------------- *)
(* Documents                                                               *)
(* ---------------------------------------------------------------------- *)
\* daily_drop_limit: an int or the literal string "all"
LimitAll == [all |-> TRUE, n |-> 0]
LimitN(k) == [all |-> FALSE, n |-> k]

DEFAULT_DATA ==
  [config |-> [drop_channel_id |-> None,
               report_channel_id |-> None,
               daily_drop_limit |-> LimitN(1),
               daily_drop_hour |-> DEFAULT_DAILY_DROP_HOUR,
               cooldown_hours |-> 12,
               enabled |-> TRUE,
               approvals_enabled |-> FALSE,
               approval_channel_id |-> None],
   meta |-> [last_daily_drop_date |-> None,
             last_monthly_announce |-> <<>>],
   cooldowns |-> <<>>,
   glazes |-> <<>>,
   wins |-> <<>>]

\* the dict /glaze builds (approved_at/by and declined_at/by, which nothing
\* reads, are left out)
NewGlaze(id, s, r, t) ==
  [id |-> id, sender_id |-> s, recipient_id |-> r, created_at |-> t,
   month_key |-> month_key(t), dropped_at |-> None, deleted |-> FALSE,
   reported |-> FALSE, approved |-> TRUE, approval_status |-> "approved",
   approval_message |-> None]

HasGlaze(d, gid) == \E i \in DOMAIN d.glazes : d.glazes[i].id = gid
\* next((x for x in data["glazes"] if x["id"] == glaze_id), None)
IdxOf(d, gid) == CHOOSE i \in DOMAIN d.glazes : d.glazes[i].id = gid

\* the blob sha GitHub answers with: a hash of the content
ShaOf(d) == [blob |-> d]

(* ---------------------------------------------------------------------- *)
(* What is read out of a document                                          *)
(* ---------------------------------------------------------------------- *)
Glaze(d, gid) == d.glazes[IdxOf(d, gid)]
Ids(gs) == {gs[i].id : i \in DOMAIN gs}

\* list.sort(key=created_at): stable, oldest first
RECURSIVE SortOldestFirst(_)
SortOldestFirst(gs) ==
  IF gs = <<>> THEN <<>>
  ELSE LET x == gs[Len(gs)]
           rest == SortOldestFirst(SubSeq(gs, 1, Len(gs) - 1))
           k == Cardinality({i \in DOMAIN rest : rest[i].created_at <= x.created_at})
       IN SubSeq(rest, 1, k) \o <<x>> \o SubSeq(rest, k + 1, Len(rest))

\* list.sort(key=created_at, reverse=True): stable, newest first
RECURSIVE SortNewestFirst(_)
SortNewestFirst(gs) ==
  IF gs = <<>> THEN <<>>
  ELSE LET x == gs[Len(gs)]
           rest == SortNewestFirst(SubSeq(gs, 1, Len(gs) - 1))
           k == Cardinality({i \in DOMAIN rest : rest[i].created_at >= x.created_at})
       IN SubSeq(rest, 1, k) \o <<x>> \o SubSeq(rest, k + 1, Len(rest))

\* the filter of every recipient-facing view
Shown(g) == g.approved /\ ~g.deleted

\* open_my_glazes: the recipient's glazes, newest first
MyGlazes(d, r) ==
  LET Mine(g) == g.recipient_id = r /\ g.approved /\ ~g.deleted
  IN SortNewestFirst(SelectSeq(d.glazes, Mine))

\* `pending` of glaze_scheduler and of /randomdrop, in document order
Undropped(g) == g.approved /\ ~g.deleted /\ g.dropped_at = None
Pending(d) == SelectSeq(d.glazes, Undropped)

\* a tally of every glaze of the month, whatever its state
MonthGlazesAll(d, mk) ==
  LET InMonth(g) == g.month_key = mk
  IN SortOldestFirst(SelectSeq(d.glazes, InMonth))

\* month_glazes of compute_month_winner
MonthGlazes(d, mk) ==
  LET InMonth(g) == g.month_key = mk /\ g.approved /\ ~g.deleted
  IN SortOldestFirst(SelectSeq(d.glazes, InMonth))

\* the glazes /glazeleaderboard counts per sender
CountedSent(d) ==
  LET Counts(g) == ~g.deleted /\ g.approved
  IN SelectSeq(d.glazes, Counts)

\* _get_daily_drop_settings: `int(cfg.get("daily_drop_hour", 17) or 17)`
\* (a stored 0 is falsy), clamped to 0..23; a limit that is not "all" is at
\* least 1
Clamp(lo, hi, x) == IF x < lo THEN lo ELSE IF x > hi THEN hi ELSE x
DailyDropHour(d) ==
  Clamp(0, 23, IF d.config.daily_drop_hour = 0 THEN DEFAULT_DAILY_DROP_HOUR
               ELSE d.config.daily_drop_hour)
DailyDropLimit(d) ==
  LET l == d.config.daily_drop_limit
  IN IF l.all THEN l ELSE IF l.n < 1 THEN LimitN(1) ELSE l

\* a batch that would take every candidate whatever the limit
ToDropUnlimited(d) == SortOldestFirst(Pending(d))

\* to_drop of glaze_scheduler: the candidates oldest first, all of them or
\* the first min(limit, len(pending))
ToDrop(d) ==
  LET pending == SortOldestFirst(Pending(d))
      limit == DailyDropLimit(d)
  IN IF limit.all THEN pending
     ELSE SubSeq(pending, 1, IF limit.n < Len(pending) THEN limit.n ELSE Len(pending))

\* a calendar in which every day is taken for a month's last
AnyDayIsLast(t) == MonthOf(DateOf(t)) = MonthOf(DateOf(t))

\* tomorrow.day == 1
is_last_day_of_month_london(t) == MonthOf(DateOf(t) + 1) # MonthOf(DateOf(t))

\* compute_month_winner: the recipient with the most glazes of the month;
\* of those tied, the one whose best-th glaze is the earliest (then the
\* one met first); None without glazes
compute_month_winner(d, mk) ==
  LET mg == MonthGlazes(d, mk)
      Count(r) == Cardinality({i \in DOMAIN mg : mg[i].recipient_id = r})
      rcpts == {mg[i].recipient_id : i \in DOMAIN mg}
      best == CHOOSE c \in {Count(r) : r \in rcpts} : \A r \in rcpts : Count(r) <= c
      tied == {r \in rcpts : Count(r) = best}
      Nth(r, n) == CHOOSE i \in DOMAIN mg :
                     /\ mg[i].recipient_id = r
                     /\ Cardinality({j \in 1..i : mg[j].recipient_id = r}) = n
      Before(r, q) ==
        \/ mg[Nth(r, best)].created_at < mg[Nth(q, best)].created_at
        \/ /\ mg[Nth(r, best)].created_at = mg[Nth(q, best)].created_at
           /\ Nth(r, 1) < Nth(q, 1)
  IN IF mg = <<>> THEN None
     ELSE Some([winner_id |-> CHOOSE r \in tied : \A q \in tied \ {r} : Before(r, q),
                count |-> best])

\* glaze gid is in a listing, a candidate set or a count of the document
Listed(d, gid) ==
  \/ \E r \in Users : gid \in Ids(MyGlazes(d, r))
  \/ gid \in Ids(Pending(d))
  \/ \E i \in DOMAIN d.glazes : gid \in Ids(MonthGlazes(d, d.glazes[i].month_key))
  \/ gid \in Ids(CountedSent(d))

(* ---------------------------------------------------------------------- *)
(* State                                                                   *)
(* ---------------------------------------------------------------------- *)
VARIABLES
  remote,     \* the file on GitHub: None (404) or Some(document)
  heap,       \* Python dict objects: object id -> None (free) or Some(document)
  cacheRef,   \* _cached_data: 0 (None) or the id of the cached object
  cachedSha,  \* _cached_sha
  lock,       \* _store_lock: "free" or the coroutine that holds it
  waiters,    \* _store_lock's FIFO queue of suspended acquirers
  running,    \* the coroutine that has the event loop, or "none"
  pc,         \* where each coroutine is
  loc,        \* each coroutine's local variables
  now,        \* the wall clock
  nextId,     \* the next uuid4 (fresh ids are modelled by a counter)
  faults,     \* backend failures injected so far
  seen,       \* the document the latest load_data that returned handed out
              \* (None before the first), as it was at that moment
  sent        \* what has gone out to Discord, counted per glaze id (capped at 2):
              \* drops (texts posted to the drop channel), declines (the
              \* DM that tells the sender of a decline), scolds (the DM
              \* after a moderator's delete), reports (posts to the
              \* report channel); and announces: the monthly winner
              \* embeds posted to the drop channel without `override`,
              \* counted per month (capped at 2)

vars == <<remote, heap, cacheRef, cachedSha, lock, waiters, running, pc, loc,
          now, nextId, faults, seen, sent>>

MaxObj == 2 * Cardinality(Procs) + 2
ObjIds == 1..MaxObj

\* a coroutine's locals: the handler it runs (op), where it goes on after
\* the load_data / save_data it is in (ret), its arguments (gid, admin,
\* sender, rcpt), `data` and `sha`, the arguments of the save_data call it
\* is in (sdata, ssha) and that call's payload (pay), the object a
\* helper's load_data returned (tmp, when side is set), and whether the
\* save_data call is the one load_data makes for a missing file (creating),
\* and the scheduler's to_drop that is still to do (todo), its now_ldn (t0)
\* and its `winner`, /force_winner's arguments (month, override) and its
\* `mk`, the `message` argument of /glaze (text), and the glaze_ids of
\* the MyGlazesView that open_my_glazes builds (ids), and the options of
\* /controlpanel (args)
LocInit ==
  [op |-> "none", ret |-> "none", gid |-> 0, admin |-> FALSE,
   sender |-> 0, rcpt |-> 0, data |-> 0, sha |-> None,
   sdata |-> 0, ssha |-> None, pay |-> None, side |-> FALSE, tmp |-> 0,
   creating |-> FALSE, todo |-> <<>>, t0 |-> 0, winner |-> None,
   month |-> None, override |-> FALSE, mk |-> 0, text |-> None, ids |-> <<>>,
   args |-> None]

\* the object a coroutine's `data` names
Doc(p) == Val(heap[loc[p].data])

\* the smallest free object id
Alloc(h) == CHOOSE i \in ObjIds : h[i] = None /\ \A j \in 1..(i - 1) : h[j] # None

\* objects nothing refers to any more are freed
Collect(h, c, l) ==
  [i \in ObjIds |->
     IF i = c \/ \E p \in Procs : i \in {l[p].data, l[p].tmp, l[p].sdata}
     THEN h[i] ELSE None]


(* ---------------------------------------------------------------------- *)
(* _store_lock (asyncio.Lock)                                              *)
(* ---------------------------------------------------------------------- *)
\* Lock.release(): the lock goes to the first waiter, if any
ReleasedLock == IF waiters = <<>> THEN "free" ELSE Head(waiters)
ReleasedWaiters == IF waiters = <<>> THEN <<>> ELSE Tail(waiters)

(* ---------------------------------------------------------------------- *)
(* load_data                                                               *)
(* ---------------------------------------------------------------------- *)
\* _merge_defaults: DEFAULT_DATA overlaid with the loaded document, the
\* dict-valued keys merged key by key
DictKeys == {"config", "meta"}
MergeDict(dflt, v) ==
  [k \in (DOMAIN dflt) \cup (DOMAIN v) |-> IF k \in DOMAIN v THEN v[k] ELSE dflt[k]]
\* a merge that keeps the keys of DEFAULT_DATA only
MergeKnownOnly(d) ==
  [k \in DOMAIN DEFAULT_DATA |->
     IF k \notin DOMAIN d THEN DEFAULT_DATA[k]
     ELSE IF k \in DictKeys THEN MergeDict(DEFAULT_DATA[k], d[k])
          ELSE d[k]]

MergeDefaults(d) ==
  [k \in (DOMAIN DEFAULT_DATA) \cup (DOMAIN d) |->
     IF k \notin DOMAIN d THEN DEFAULT_DATA[k]
     ELSE IF k \in DictKeys /\ k \in DOMAIN DEFAULT_DATA
          THEN MergeDict(DEFAULT_DATA[k], d[k])
          ELSE d[k]]

\* load_data returns (ref, sha): to `data, sha` of the handler, or to the
\* helper (get_drop_channel) that called it
Loaded(l, p, ref, sha) ==
  IF l[p].side THEN [l EXCEPT ![p].tmp = ref, ![p].ret = "none"]
  ELSE [l EXCEPT ![p].data = ref, ![p].sha = sha, ![p].ret = "none"]

\* p, whose locals are l, calls load_data and will go on at `ret`.
\* `async with _store_lock` is taken at once when the lock is free and nobody
\* waits: then a cached document is returned without suspending, and with
\* no cache requests.get is started.  Else p queues up for the lock.
CallLoad(p, ret, l) ==
  /\ IF lock = "free"
     THEN IF cacheRef # 0
          THEN /\ loc' = Loaded(l, p, cacheRef, cachedSha)
               /\ seen' = heap[cacheRef]
               /\ pc' = [pc EXCEPT ![p] = ret]
               /\ running' = p
               /\ UNCHANGED <<lock, waiters>>
          ELSE /\ loc' = [l EXCEPT ![p].ret = ret]
               /\ pc' = [pc EXCEPT ![p] = "get"]
               /\ lock' = p
               /\ running' = "none"
               /\ UNCHANGED <<waiters, seen>>
     ELSE /\ loc' = [l EXCEPT ![p].ret = ret]
          /\ pc' = [pc EXCEPT ![p] = "load_wait"]
          /\ waiters' = Append(waiters, p)
          /\ running' = "none"
          /\ UNCHANGED <<lock, seen>>
  /\ heap' = Collect(heap, cacheRef, loc')
  /\ UNCHANGED <<remote, cacheRef, cachedSha>>

\* the same after `_cached_data = None; _cached_sha = None`
CallLoadFresh(p, ret, l) ==
  /\ cacheRef' = 0
  /\ cachedSha' = None
  /\ loc' = [l EXCEPT ![p].ret = ret]
  /\ IF lock = "free"
     THEN /\ pc' = [pc EXCEPT ![p] = "get"]
          /\ lock' = p
          /\ UNCHANGED waiters
     ELSE /\ pc' = [pc EXCEPT ![p] = "load_wait"]
          /\ waiters' = Append(waiters, p)
          /\ UNCHANGED lock
  /\ running' = "none"
  /\ heap' = Collect(heap, 0, loc')
  /\ UNCHANGED <<remote, seen>>

\* a coroutine that waited for the lock in load_data wakes up holding it
GrantedLoad(p) ==
  /\ running = "none"
  /\ lock = p
  /\ pc[p] = "load_wait"
  /\ IF cacheRef # 0
     THEN /\ loc' = Loaded(loc, p, cacheRef, cachedSha)
          /\ seen' = heap[cacheRef]
          /\ pc' = [pc EXCEPT ![p] = loc[p].ret]
          /\ running' = p
          /\ lock' = ReleasedLock
          /\ waiters' = ReleasedWaiters
     ELSE /\ pc' = [pc EXCEPT ![p] = "get"]
          /\ UNCHANGED <<loc, running, lock, waiters, seen>>
  /\ heap' = Collect(heap, cacheRef, loc')
  /\ UNCHANGED <<remote, cacheRef, cachedSha, now, nextId, faults, sent>>

\* the GET answers 200: the cache is filled with the merged document
GetOk(p) ==
  /\ running = "none"
  /\ pc[p] = "get"
  /\ IsSome(remote)
  /\ LET new == Alloc(heap)
         h1 == [heap EXCEPT ![new] = Some(MergeDefaults(Val(remote)))]
     IN /\ cacheRef' = new
        /\ cachedSha' = Some(ShaOf(Val(remote)))
        /\ loc' = Loaded(loc, p, new, Some(ShaOf(Val(remote))))
        /\ seen' = h1[new]
        /\ heap' = Collect(h1, new, loc')
  /\ pc' = [pc EXCEPT ![p] = loc[p].ret]
  /\ running' = p
  /\ lock' = ReleasedLock
  /\ waiters' = ReleasedWaiters
  /\ UNCHANGED <<remote, now, nextId, faults, sent>>

\* load_data calling save_data(created_data, None) before it has left
\* `async with _store_lock`: p waits for the lock it holds
GetMissingInside(p) ==
  /\ running = "none"
  /\ pc[p] = "get"
  /\ remote = None
  /\ LET new == Alloc(heap)
         h1 == [heap EXCEPT ![new] = Some(DEFAULT_DATA)]
         l1 == [loc EXCEPT ![p].sdata = new, ![p].ssha = None,
                           ![p].creating = TRUE,
                           ![p].data = IF loc[p].side THEN @ ELSE new,
                           ![p].tmp = IF loc[p].side THEN new ELSE @]
     IN /\ cacheRef' = new
        /\ cachedSha' = None
        /\ loc' = l1
        /\ pc' = [pc EXCEPT ![p] = "save_wait"]
        /\ waiters' = Append(waiters, p)
        /\ heap' = Collect(h1, new, loc')
  /\ UNCHANGED <<remote, lock, running, now, nextId, faults, seen, sent>>

\* the GET answers 404: the default document becomes the cache, the lock is
\* released and save_data(created_data, None) is called (which takes the
\* lock again, behind whoever waits); load_data will return
\* (created_data, None)
GetMissing(p) ==
  /\ running = "none"
  /\ pc[p] = "get"
  /\ remote = None
  /\ LET new == Alloc(heap)
         h1 == [heap EXCEPT ![new] = Some(DEFAULT_DATA)]
         l1 == [loc EXCEPT ![p].sdata = new, ![p].ssha = None,
                           ![p].creating = TRUE,
                           ![p].data = IF loc[p].side THEN @ ELSE new,
                           ![p].tmp = IF loc[p].side THEN new ELSE @]
     IN /\ cacheRef' = new
        /\ cachedSha' = None
        /\ IF waiters = <<>>
           THEN /\ loc' = [l1 EXCEPT ![p].pay = Some(DEFAULT_DATA)]
                /\ pc' = [pc EXCEPT ![p] = "put"]
                /\ UNCHANGED <<lock, waiters>>
           ELSE /\ loc' = l1
                /\ pc' = [pc EXCEPT ![p] = "save_wait"]
                /\ lock' = Head(waiters)
                /\ waiters' = Append(Tail(waiters), p)
        /\ heap' = Collect(h1, new, loc')
  /\ UNCHANGED <<remote, running, now, nextId, faults, seen, sent>>

\* the GET answers anything else: raise RuntimeError (the lock is released
\* by `async with`, the cache stays empty).  A handler's exception goes to
\* discord.py, the scheduler's is caught and printed: the operation is over.
GetFails(p) ==
  /\ running = "none"
  /\ pc[p] = "get"
  /\ faults < MaxFaults
  /\ faults' = faults + 1
  /\ loc' = [loc EXCEPT ![p] = LocInit]
  /\ heap' = Collect(heap, cacheRef, loc')
  /\ pc' = [pc EXCEPT ![p] = "idle"]
  /\ lock' = ReleasedLock
  /\ waiters' = ReleasedWaiters
  /\ UNCHANGED <<remote, cacheRef, cachedSha, running, now, nextId, seen, sent>>

(* ---------------------------------------------------------------------- *)
(* save_data                                                               *)
(* ---------------------------------------------------------------------- *)
\* p, whose locals are l, calls save_data(data, sha) with the heap being h,
\* and will go on at `ret`.  With the lock taken at once the payload is
\* json.dumps(data) and requests.put is started; else p queues up.
CallSave(p, ret, l, h) ==
  /\ IF lock = "free"
     THEN /\ loc' = [l EXCEPT ![p].ret = ret, ![p].sdata = l[p].data,
                              ![p].ssha = l[p].sha, ![p].pay = h[l[p].data]]
          /\ pc' = [pc EXCEPT ![p] = "put"]
          /\ lock' = p
          /\ UNCHANGED waiters
     ELSE /\ loc' = [l EXCEPT ![p].ret = ret, ![p].sdata = l[p].data,
                              ![p].ssha = l[p].sha]
          /\ pc' = [pc EXCEPT ![p] = "save_wait"]
          /\ waiters' = Append(waiters, p)
          /\ UNCHANGED lock
  /\ running' = "none"
  /\ heap' = Collect(h, cacheRef, loc')
  /\ UNCHANGED <<remote, cacheRef, cachedSha, seen>>

\* a coroutine that waited for the lock in save_data wakes up holding it:
\* the payload is json.dumps(data) as data is now
GrantedSave(p) ==
  /\ running = "none"
  /\ lock = p
  /\ pc[p] = "save_wait"
  /\ loc' = [loc EXCEPT ![p].pay = heap[loc[p].sdata]]
  /\ pc' = [pc EXCEPT ![p] = "put"]
  /\ UNCHANGED <<remote, heap, cacheRef, cachedSha, lock, waiters, running,
                 now, nextId, faults, seen, sent>>

\* GitHub's contents API: a PUT creates the file when it is absent and no
\* sha is given, and updates it when the sha given is the file's blob sha
ShaMatches(sha) ==
  IF remote = None THEN sha = None ELSE sha = Some(ShaOf(Val(remote)))

\* 200/201: _cached_sha = the new sha, _cached_data = _deepcopy(data), the
\* copy being taken of `data` as it is when the answer arrives.  A handler
\* whose save_data call is its last statement that matters returns.
PutOk(p) ==
  /\ running = "none"
  /\ pc[p] = "put"
  /\ ShaMatches(loc[p].ssha)
  /\ remote' = loc[p].pay
  /\ LET new == Alloc(heap)
         h1 == [heap EXCEPT ![new] = heap[loc[p].sdata]]
     IN /\ cacheRef' = new
        /\ cachedSha' = Some(ShaOf(Val(loc[p].pay)))
        /\ loc' = IF loc[p].ret = "return" THEN [loc EXCEPT ![p] = LocInit]
                  ELSE [loc EXCEPT ![p].pay = None, ![p].sdata = 0,
                                   ![p].ssha = None, ![p].ret = "none",
                                   ![p].creating = FALSE]
        /\ seen' = IF loc[p].creating THEN heap[loc[p].sdata] ELSE seen
        /\ heap' = Collect(h1, new, loc')
  /\ pc' = [pc EXCEPT ![p] = IF loc[p].ret = "return" THEN "idle" ELSE loc[p].ret]
  /\ running' = IF loc[p].ret = "return" THEN "none" ELSE p
  /\ lock' = ReleasedLock
  /\ waiters' = ReleasedWaiters
  /\ UNCHANGED <<now, nextId, faults, sent>>

\* 409/422 (the sha is not the file's): raise RuntimeError before the cache
\* is touched
PutConflict(p) ==
  /\ running = "none"
  /\ pc[p] = "put"
  /\ ~ShaMatches(loc[p].ssha)
  /\ loc' = [loc EXCEPT ![p] = LocInit]
  /\ heap' = Collect(heap, cacheRef, loc')
  /\ pc' = [pc EXCEPT ![p] = "idle"]
  /\ lock' = ReleasedLock
  /\ waiters' = ReleasedWaiters
  /\ UNCHANGED <<remote, cacheRef, cachedSha, running, now, nextId, faults,
                 seen, sent>>

\* any other failure of the backend: raise RuntimeError, nothing written
PutFails(p) ==
  /\ running = "none"
  /\ pc[p] = "put"
  /\ faults < MaxFaults
  /\ faults' = faults + 1
  /\ loc' = [loc EXCEPT ![p] = LocInit]
  /\ heap' = Collect(heap, cacheRef, loc')
  /\ pc' = [pc EXCEPT ![p] = "idle"]
  /\ lock' = ReleasedLock
  /\ waiters' = ReleasedWaiters
  /\ UNCHANGED <<remote, cacheRef, cachedSha, running, now, nextId, seen, sent>>

(* ---------------------------------------------------------------------- *)
(* What handlers are made of                                               *)
(* ---------------------------------------------------------------------- *)
\* a handler returns after its last response to the user
Finish(p) ==
  /\ loc' = [loc EXCEPT ![p] = LocInit]
  /\ heap' = Collect(heap, cacheRef, loc')
  /\ pc' = [pc EXCEPT ![p] = "idle"]
  /\ running' = "none"
  /\ UNCHANGED <<remote, cacheRef, cachedSha, lock, waiters, seen>>

\* a handler is invoked with the locals l: its first await is load_data
Invoke(p, ret, l) ==
  /\ running = "none"
  /\ pc[p] = "idle"
  /\ CallLoad(p, ret, [loc EXCEPT ![p] = l])
  /\ UNCHANGED <<now, nextId, faults, sent>>

\* the coroutine replaces the document its `data` names by d (a mutation
\* in place) and calls save_data
MutateAndSave(p, d, ret) ==
  CallSave(p, ret, loc, [heap EXCEPT ![loc[p].data] = Some(d)])

Bump(f, g) == [f EXCEPT ![g] = IF @ < 2 THEN @ + 1 ELSE @]

\* one more winner announcement of month mk
Announced(f, mk) == IF mk \in DOMAIN f THEN Bump(f, mk) ELSE (mk :> 1) @@ f

(* ---------------------------------------------------------------------- *)
(* ApprovalView: the Approve and Decline buttons                           *)
(* ---------------------------------------------------------------------- *)
\* a moderator (or somebody else: admin = FALSE) presses a button of the
\* approval message of glaze gid; _admin_check calls load_data
PressApprove(p, gid, admin) ==
  /\ p \in Handlers
  /\ gid \in 1..(nextId - 1)
  /\ Invoke(p, "admin_check", [LocInit EXCEPT !.op = "approve", !.gid = gid, !.admin = admin])

PressDecline(p, gid, admin) ==
  /\ p \in Handlers
  /\ gid \in 1..(nextId - 1)
  /\ Invoke(p, "admin_check", [LocInit EXCEPT !.op = "decline", !.gid = gid, !.admin = admin])

\* _admin_check, then `data, sha = await load_data()`
AdminCheck(p) ==
  /\ running = p
  /\ pc[p] = "admin_check"
  /\ IF loc[p].admin
     THEN CallLoad(p, IF loc[p].op = "approve" THEN "approve_body" ELSE "decline_body", loc)
     ELSE Finish(p)
  /\ UNCHANGED <<now, nextId, faults, sent>>

ApprovedGlaze(g) == [g EXCEPT !.approved = TRUE, !.approval_status = "approved"]

\* nothing but the message edit follows the save
ApproveBody(p) ==
  /\ running = p
  /\ pc[p] = "approve_body"
  /\ LET d == Doc(p)
         gid == loc[p].gid
     IN IF ~HasGlaze(d, gid) THEN Finish(p)
        ELSE IF d.glazes[IdxOf(d, gid)].approval_status # "pending" THEN Finish(p)
        ELSE MutateAndSave(p, [d EXCEPT !.glazes[IdxOf(d, gid)] = ApprovedGlaze(@)], "return")
  /\ UNCHANGED <<now, nextId, faults, sent>>

\* a decline that would leave the glaze undeleted
DeclinedNotDeleted(g) == [g EXCEPT !.approved = FALSE, !.approval_status = "declined"]

\* g["approved"] = False; g["approval_status"] = "declined"; g["deleted"] = True
DeclinedGlaze(g) ==
  [g EXCEPT !.approved = FALSE, !.approval_status = "declined", !.deleted = TRUE]

\* a decline that tells the sender before it saves
DeclineNotifyFirst(p) ==
  /\ running = p
  /\ pc[p] = "decline_body"
  /\ LET d == Doc(p)
         gid == loc[p].gid
     IN IF ~HasGlaze(d, gid) \/ d.glazes[IdxOf(d, gid)].approval_status # "pending"
        THEN Finish(p) /\ UNCHANGED sent
        ELSE /\ MutateAndSave(p, [d EXCEPT !.glazes[IdxOf(d, gid)] = DeclinedGlaze(@)], "decline_done")
             /\ sent' = [sent EXCEPT !.declines = Bump(@, gid)]
  /\ UNCHANGED <<now, nextId, faults>>

DeclineBody(p) ==
  /\ running = p
  /\ pc[p] = "decline_body"
  /\ LET d == Doc(p)
         gid == loc[p].gid
     IN IF ~HasGlaze(d, gid) THEN Finish(p)
        ELSE IF d.glazes[IdxOf(d, gid)].approval_status # "pending" THEN Finish(p)
        ELSE MutateAndSave(p, [d EXCEPT !.glazes[IdxOf(d, gid)] = DeclinedGlaze(@)], "decline_done")
  /\ UNCHANGED <<now, nextId, faults, sent>>

\* after the save: the sender is DMed (try/except: a DM that cannot be
\* delivered is dropped), then the message is edited
DeclineDone(p) ==
  /\ running = p
  /\ pc[p] = "decline_done"
  /\ \E ok \in BOOLEAN :
       sent' = IF ok THEN [sent EXCEPT !.declines = Bump(@, loc[p].gid)] ELSE sent
  /\ Finish(p)
  /\ UNCHANGED <<now, nextId, faults>>

(* ---------------------------------------------------------------------- *)
(* DeleteScoldView: the moderators' delete button on a report              *)
(* ---------------------------------------------------------------------- *)
PressDelete(p, gid, admin) ==
  /\ p \in Handlers
  /\ gid \in 1..(nextId - 1)
  /\ Invoke(p, "delete_body", [LocInit EXCEPT !.op = "delete", !.gid = gid, !.admin = admin])

DeleteBody(p) ==
  /\ running = p
  /\ pc[p] = "delete_body"
  /\ LET d == Doc(p)
         gid == loc[p].gid
     IN IF ~loc[p].admin THEN Finish(p)
        ELSE IF ~HasGlaze(d, gid) \/ d.glazes[IdxOf(d, gid)].deleted THEN Finish(p)
        ELSE MutateAndSave(p, [d EXCEPT !.glazes[IdxOf(d, gid)].deleted = TRUE], "delete_done")
  /\ UNCHANGED <<now, nextId, faults, sent>>

\* after the save: the scold DM (try/except), then the message is edited
DeleteDone(p) ==
  /\ running = p
  /\ pc[p] = "delete_done"
  /\ \E ok \in BOOLEAN :
       sent' = IF ok THEN [sent EXCEPT !.scolds = Bump(@, loc[p].gid)] ELSE sent
  /\ Finish(p)
  /\ UNCHANGED <<now, nextId, faults>>

(* ---------------------------------------------------------------------- *)
(* /glaze                                                                  *)
(* ---------------------------------------------------------------------- *)
\* _get_cooldown_td: cooldown_hours clamped to 1..168
CooldownHours(d) == Clamp(1, 168, d.config.cooldown_hours)

\* a cooldown of the default 12 hours whatever is configured
CooldownNotConfigured(d, s, t) ==
  /\ s \in DOMAIN d.cooldowns
  /\ HoursAt(t) - HoursAt(d.cooldowns[s]) < DEFAULT_DATA.config.cooldown_hours

\* last = data["cooldowns"].get(sender); last and now - last < cd
OnCooldown(d, s, t) ==
  /\ s \in DOMAIN d.cooldowns
  /\ HoursAt(t) - HoursAt(d.cooldowns[s]) < CooldownHours(d)

\* /glaze invocations that have not drawn their uuid yet
Drawing == Cardinality({q \in Handlers : loc[q].op = "glaze" /\ loc[q].gid = 0})

\* /glaze member message, past the self-target and the length checks (which
\* touch nothing): the cache is dropped and load_data is called
Submit(p, s, r) ==
  /\ p \in Handlers
  /\ running = "none"
  /\ pc[p] = "idle"
  /\ s # r
  /\ nextId + Drawing <= NInit + MaxNew
  /\ CallLoadFresh(p, "glaze_body",
                   [loc EXCEPT ![p] = [LocInit EXCEPT !.op = "glaze", !.sender = s, !.rcpt = r]])
  /\ UNCHANGED <<now, nextId, faults, sent>>

\* the `message` argument: a text of `body` characters with `pad`
\* characters of whitespace around it; len(message.strip())
Text(body, pad) == [body |-> body, pad |-> pad]
StrippedLen(text) == text.body

\* a check that takes nobody for the sender
NoSelfTarget(s, r) == s # s

\* member.id == interaction.user.id
SelfTarget(s, r) == s = r

\* /glaze member message: interaction.response.defer is awaited
GlazeCmd(p, s, r, text) ==
  /\ p \in Handlers
  /\ running = "none"
  /\ pc[p] = "idle"
  /\ nextId + Drawing <= NInit + MaxSubmits
  /\ loc' = [loc EXCEPT ![p] = [LocInit EXCEPT !.op = "glaze", !.sender = s, !.rcpt = r,
                                                !.text = Some(text)]]
  /\ pc' = [pc EXCEPT ![p] = "glaze_defer"]
  /\ UNCHANGED <<remote, heap, cacheRef, cachedSha, lock, waiters, running,
                 now, nextId, faults, seen, sent>>

\* deferred: a glaze to oneself is answered with the roast, a text that is
\* too short or too long with a hint; else the cache is dropped and
\* load_data is called
GlazeChecks(p) ==
  /\ running = "none"
  /\ pc[p] = "glaze_defer"
  /\ IF SelfTarget(loc[p].sender, loc[p].rcpt)
     THEN /\ pc' = [pc EXCEPT ![p] = "glaze_roast"]
          /\ UNCHANGED <<remote, heap, cacheRef, cachedSha, lock, waiters, running, loc, seen>>
     ELSE IF StrippedLen(Val(loc[p].text)) < MinText \/ StrippedLen(Val(loc[p].text)) > MaxText
     THEN /\ pc' = [pc EXCEPT ![p] = "glaze_hint"]
          /\ UNCHANGED <<remote, heap, cacheRef, cachedSha, lock, waiters, running, loc, seen>>
     ELSE CallLoadFresh(p, "glaze_body", loc)
  /\ UNCHANGED <<now, nextId, faults, sent>>

\* the roast (or the hint) is out: the command is over
GlazeRoast(p) ==
  /\ running = "none"
  /\ pc[p] \in {"glaze_roast", "glaze_hint"}
  /\ Finish(p)
  /\ UNCHANGED <<now, nextId, faults, sent>>

PendingGlaze(g) == [g EXCEPT !.approved = FALSE, !.approval_status = "pending"]

\* an append that leaves the sender's cooldown as it was
SubmittedNoCooldown(d, g) == [d EXCEPT !.glazes = Append(@, g)]

\* data["glazes"].append(glaze); data["cooldowns"][str(user.id)] = iso_utc(created)
Submitted(d, g) ==
  [d EXCEPT !.glazes = Append(@, g),
            !.cooldowns = (g.sender_id :> g.created_at) @@ @]

\* the enabled and cooldown checks, then the glaze is appended, the
\* cooldown written and save_data called
GlazeBody(p) ==
  /\ running = p
  /\ pc[p] = "glaze_body"
  /\ LET d == Doc(p)
         on == d.config.approvals_enabled
         g0 == NewGlaze(nextId, loc[p].sender, loc[p].rcpt, now)
         g == IF on THEN PendingGlaze(g0) ELSE g0
         d1 == Submitted(d, g)
     IN IF ~d.config.enabled \/ OnCooldown(d, loc[p].sender, now)
        THEN Finish(p) /\ UNCHANGED nextId
        ELSE /\ CallSave(p, IF on THEN "glaze_pending" ELSE "return",
                         [loc EXCEPT ![p].gid = nextId],
                         [heap EXCEPT ![loc[p].data] = Some(d1)])
             /\ nextId' = nextId + 1
  /\ UNCHANGED <<now, faults, sent>>

\* approvals on, after the save: get_approval_channel calls load_data
GlazePending(p) ==
  /\ running = p
  /\ pc[p] = "glaze_pending"
  /\ CallLoad(p, "glaze_channel", loc)
  /\ UNCHANGED <<now, nextId, faults, sent>>

\* no approval channel: done; else the approval message is posted
GlazeChannel(p) ==
  /\ running = p
  /\ pc[p] = "glaze_channel"
  /\ IF Doc(p).config.approval_channel_id = None
     THEN Finish(p)
     ELSE /\ pc' = [pc EXCEPT ![p] = "glaze_posting"]
          /\ running' = "none"
          /\ UNCHANGED <<remote, heap, cacheRef, cachedSha, lock, waiters, loc, seen>>
  /\ UNCHANGED <<now, nextId, faults, sent>>

\* the message is posted: the cache is dropped again and load_data called
GlazePosted(p) ==
  /\ running = "none"
  /\ pc[p] = "glaze_posting"
  /\ CallLoadFresh(p, "glaze_message", loc)
  /\ UNCHANGED <<now, nextId, faults, sent>>

\* g2["approval_message"] = {...}; save_data(data2, sha2)
GlazeMessage(p) ==
  /\ running = p
  /\ pc[p] = "glaze_message"
  /\ LET d == Doc(p)
         gid == loc[p].gid
     IN IF HasGlaze(d, gid)
        THEN MutateAndSave(p, [d EXCEPT !.glazes[IdxOf(d, gid)].approval_message = Some(gid)],
                           "return")
        ELSE Finish(p)
  /\ UNCHANGED <<now, nextId, faults, sent>>

(* ---------------------------------------------------------------------- *)
(* The Report button of /myglaze                                           *)
(* ---------------------------------------------------------------------- *)
PressReport(p, gid) ==
  /\ p \in Handlers
  /\ gid \in 1..(nextId - 1)
  /\ Invoke(p, "report_current", [LocInit EXCEPT !.op = "report", !.gid = gid])

\* MyGlazesView._get_current_glaze (not g or deleted or not approved: no
\* longer available), then get_report_channel's load_data
ReportCurrent(p) ==
  /\ running = p
  /\ pc[p] = "report_current"
  /\ LET d == Doc(p)
         gid == loc[p].gid
     IN IF HasGlaze(d, gid) /\ Shown(d.glazes[IdxOf(d, gid)])
        THEN CallLoad(p, "report_channel", loc)
        ELSE Finish(p)
  /\ UNCHANGED <<now, nextId, faults, sent>>

\* report_glaze: no report channel ends it, else `data, sha = await load_data()`
ReportChannel(p) ==
  /\ running = p
  /\ pc[p] = "report_channel"
  /\ IF Doc(p).config.report_channel_id = None
     THEN Finish(p)
     ELSE CallLoad(p, "report_body", loc)
  /\ UNCHANGED <<now, nextId, faults, sent>>

ReportBody(p) ==
  /\ running = p
  /\ pc[p] = "report_body"
  /\ LET d == Doc(p)
         gid == loc[p].gid
     IN IF ~HasGlaze(d, gid) \/ d.glazes[IdxOf(d, gid)].deleted
        THEN Finish(p)
        ELSE MutateAndSave(p, [d EXCEPT !.glazes[IdxOf(d, gid)].reported = TRUE], "report_done")
  /\ UNCHANGED <<now, nextId, faults, sent>>

\* after the save: the report is posted to the report channel
ReportDone(p) ==
  /\ running = p
  /\ pc[p] = "report_done"
  /\ sent' = [sent EXCEPT !.reports = Bump(@, loc[p].gid)]
  /\ Finish(p)
  /\ UNCHANGED <<now, nextId, faults>>

(* ---------------------------------------------------------------------- *)
(* /randomdrop                                                             *)
(* ---------------------------------------------------------------------- *)
RandomDrop(p, admin) ==
  /\ p \in Handlers
  /\ Invoke(p, "rd_body", [LocInit EXCEPT !.op = "randomdrop", !.admin = admin])

\* the enabled and admin checks, then get_drop_channel's load_data
RdBody(p) ==
  /\ running = p
  /\ pc[p] = "rd_body"
  /\ IF ~Doc(p).config.enabled \/ ~loc[p].admin
     THEN Finish(p)
     ELSE CallLoad(p, "rd_channel", [loc EXCEPT ![p].side = TRUE])
  /\ UNCHANGED <<now, nextId, faults, sent>>

\* no drop channel or nothing pending ends it; else random.choice(pending)
\* of the document loaded first, and the ping is sent
RdChannel(p) ==
  /\ running = p
  /\ pc[p] = "rd_channel"
  /\ IF Val(heap[loc[p].tmp]).config.drop_channel_id = None \/ Pending(Doc(p)) = <<>>
     THEN Finish(p)
     ELSE /\ \E gid \in Ids(Pending(Doc(p))) :
               loc' = [loc EXCEPT ![p].gid = gid, ![p].side = FALSE, ![p].tmp = 0]
          /\ heap' = Collect(heap, cacheRef, loc')
          /\ pc' = [pc EXCEPT ![p] = "rd_ping"]
          /\ running' = "none"
          /\ UNCHANGED <<remote, cacheRef, cachedSha, lock, waiters, seen>>
  /\ UNCHANGED <<now, nextId, faults, sent>>

\* the ping is out: the embed with the text is sent
RdPing(p) ==
  /\ running = "none"
  /\ pc[p] = "rd_ping"
  /\ pc' = [pc EXCEPT ![p] = "rd_embed"]
  /\ UNCHANGED <<remote, heap, cacheRef, cachedSha, lock, waiters, running, loc,
                 now, nextId, faults, seen, sent>>

\* g.dropped_at = now, in the glaze of the document p holds
Stamped(d, gid, t) == [d EXCEPT !.glazes[IdxOf(d, gid)].dropped_at = Some(t)]

\* the embed is out: g["dropped_at"] = iso_utc(now_utc()); save_data
RdEmbed(p) ==
  /\ running = "none"
  /\ pc[p] = "rd_embed"
  /\ sent' = [sent EXCEPT !.drops = Bump(@, loc[p].gid)]
  /\ MutateAndSave(p, Stamped(Doc(p), loc[p].gid, now), "return")
  /\ UNCHANGED <<now, nextId, faults>>

(* ---------------------------------------------------------------------- *)
(* glaze_scheduler: one iteration of the one-minute loop                   *)
(* ---------------------------------------------------------------------- *)
\* tasks.loop starts an iteration when the one before has ended
Tick ==
  /\ pc[Sched] = "idle"
  /\ Invoke(Sched, "tick_body", [LocInit EXCEPT !.op = "tick"])

\* the checks of enabled and drop channel, now_ldn, and the daily drop's
\* conditions; with glazes to drop the first ping is sent
TickBody ==
  /\ running = Sched
  /\ pc[Sched] = "tick_body"
  /\ LET d == Doc(Sched)
         l1 == [loc EXCEPT ![Sched].t0 = now]
     IN IF ~d.config.enabled \/ d.config.drop_channel_id = None
        THEN Finish(Sched)
        ELSE IF HourOf(now) = DailyDropHour(d)
                /\ d.meta.last_daily_drop_date # Some(DateOf(now))
        THEN IF ToDrop(d) # <<>>
             THEN /\ loc' = [l1 EXCEPT ![Sched].todo = [i \in DOMAIN ToDrop(d) |-> ToDrop(d)[i].id]]
                  /\ pc' = [pc EXCEPT ![Sched] = "tick_ping"]
                  /\ running' = "none"
                  /\ UNCHANGED <<remote, heap, cacheRef, cachedSha, lock, waiters, seen>>
             ELSE CallSave(Sched, "tick_monthly", l1,
                           [heap EXCEPT ![loc[Sched].data] =
                              Some([d EXCEPT !.meta.last_daily_drop_date = Some(DateOf(now))])])
        ELSE /\ loc' = l1
             /\ pc' = [pc EXCEPT ![Sched] = "tick_monthly"]
             /\ UNCHANGED <<remote, heap, cacheRef, cachedSha, lock, waiters, running, seen>>
  /\ UNCHANGED <<now, nextId, faults, sent>>

\* _drop_one_glaze: the ping is out, the embed with the text is sent
TickPing ==
  /\ running = "none"
  /\ pc[Sched] = "tick_ping"
  /\ pc' = [pc EXCEPT ![Sched] = "tick_embed"]
  /\ UNCHANGED <<remote, heap, cacheRef, cachedSha, lock, waiters, running, loc,
                 now, nextId, faults, seen, sent>>

\* the embed is out: g["dropped_at"] = iso_utc(now_utc()); then the next
\* glaze of to_drop, or the date is written and save_data called
TickEmbed ==
  /\ running = "none"
  /\ pc[Sched] = "tick_embed"
  /\ LET gid == Head(loc[Sched].todo)
         d1 == Stamped(Doc(Sched), gid, now)
     IN /\ sent' = [sent EXCEPT !.drops = Bump(@, gid)]
        /\ IF Tail(loc[Sched].todo) # <<>>
           THEN /\ heap' = [heap EXCEPT ![loc[Sched].data] = Some(d1)]
                /\ loc' = [loc EXCEPT ![Sched].todo = Tail(@)]
                /\ pc' = [pc EXCEPT ![Sched] = "tick_ping"]
                /\ UNCHANGED <<remote, cacheRef, cachedSha, lock, waiters, running, seen>>
           ELSE CallSave(Sched, "tick_monthly", [loc EXCEPT ![Sched].todo = <<>>],
                         [heap EXCEPT ![loc[Sched].data] =
                            Some([d1 EXCEPT !.meta.last_daily_drop_date =
                                               Some(DateOf(loc[Sched].t0))])])
  /\ UNCHANGED <<now, nextId, faults>>

\* the monthly announcement's conditions; with a winner @everyone is pinged
TickMonthly ==
  /\ running = Sched
  /\ pc[Sched] = "tick_monthly"
  /\ LET d == Doc(Sched)
         t == loc[Sched].t0
         mk == MonthOf(DateOf(t))
     IN IF /\ is_last_day_of_month_london(t)
           /\ HourOf(t) = MONTHLY_DROP_HOUR
           /\ mk \notin DOMAIN d.meta.last_monthly_announce
           /\ compute_month_winner(d, mk) # None
        THEN /\ loc' = [loc EXCEPT ![Sched].winner = compute_month_winner(d, mk)]
             /\ pc' = [pc EXCEPT ![Sched] = "tick_mping"]
             /\ running' = "none"
             /\ UNCHANGED <<remote, heap, cacheRef, cachedSha, lock, waiters, seen>>
        ELSE Finish(Sched)
  /\ UNCHANGED <<now, nextId, faults, sent>>

\* the ping is out: the monthly embed is sent
MonthlyPing ==
  /\ running = "none"
  /\ pc[Sched] = "tick_mping"
  /\ pc' = [pc EXCEPT ![Sched] = "tick_membed"]
  /\ UNCHANGED <<remote, heap, cacheRef, cachedSha, lock, waiters, running, loc,
                 now, nextId, faults, seen, sent>>

\* the embed is out: last_monthly_announce[mk] and the winner's wins are
\* written and save_data is called with the sha of the tick's load_data
MonthlyEmbed ==
  /\ running = "none"
  /\ pc[Sched] = "tick_membed"
  /\ LET d == Doc(Sched)
         mk == MonthOf(DateOf(loc[Sched].t0))
         w == Val(loc[Sched].winner).winner_id
         had == IF w \in DOMAIN d.wins THEN d.wins[w] ELSE 0
     IN MutateAndSave(Sched,
                      [d EXCEPT !.meta.last_monthly_announce = (mk :> now) @@ @,
                                !.wins = (w :> had + 1) @@ @],
                      "return")
        /\ sent' = [sent EXCEPT !.announces = Announced(@, mk)]
  /\ UNCHANGED <<now, nextId, faults>>

(* ---------------------------------------------------------------------- *)
(* /force_winner                                                           *)
(* ---------------------------------------------------------------------- *)
\* the `month` argument: None (blank), or a string that strptime accepts
\* as YYYY-MM (ok, with the month it names) or rejects
MonthNamed(m) == Some([ok |-> TRUE, mk |-> m])
MonthInvalid == Some([ok |-> FALSE, mk |-> 0])

\* the most wins anybody has in the file
TopWins ==
  IF remote = None \/ DOMAIN Val(remote).wins = {} THEN 0
  ELSE CHOOSE n \in {Val(remote).wins[w] : w \in DOMAIN Val(remote).wins} :
         \A w \in DOMAIN Val(remote).wins : Val(remote).wins[w] <= n

\* /force_winner month override; the admin check calls load_data
ForceWinner(p, admin, month, override) ==
  /\ p \in Handlers
  /\ TopWins < MaxWins
  /\ Invoke(p, "fw_admin", [LocInit EXCEPT !.op = "force_winner", !.admin = admin,
                                          !.month = month, !.override = override])

\* not an admin: done; else get_drop_channel's load_data
FwAdmin(p) ==
  /\ running = p
  /\ pc[p] = "fw_admin"
  /\ IF ~loc[p].admin
     THEN Finish(p)
     ELSE CallLoad(p, "fw_channel", [loc EXCEPT ![p].side = TRUE])
  /\ UNCHANGED <<now, nextId, faults, sent>>

\* no drop channel: done; else the cache is dropped and load_data called
FwChannel(p) ==
  /\ running = p
  /\ pc[p] = "fw_channel"
  /\ IF Val(heap[loc[p].tmp]).config.drop_channel_id = None
     THEN Finish(p)
     ELSE CallLoadFresh(p, "fw_body", [loc EXCEPT ![p].side = FALSE, ![p].tmp = 0])
  /\ UNCHANGED <<now, nextId, faults, sent>>

\* a check that lets every month through
NeverAnnounced(d, mk, override) == mk \in DOMAIN d.meta.last_monthly_announce /\ FALSE

\* last_map.get(mk) and not override
AlreadyAnnounced(d, mk, override) ==
  mk \in DOMAIN d.meta.last_monthly_announce /\ ~override

\* mk is the month given or the month before now_ldn's; an invalid month
\* and a month without glazes end the command, a month announced already
\* (without override) is answered with "already announced"; else @everyone
\* is pinged
FwBody(p) ==
  /\ running = p
  /\ pc[p] = "fw_body"
  /\ LET d == Doc(p)
         month == loc[p].month
         mk == IF month = None THEN MonthOf(DateOf(now)) - 1 ELSE Val(month).mk
     IN IF month # None /\ ~Val(month).ok
        THEN Finish(p)
        ELSE IF AlreadyAnnounced(d, mk, loc[p].override)
        THEN /\ loc' = [loc EXCEPT ![p].mk = mk]
             /\ pc' = [pc EXCEPT ![p] = "fw_already"]
             /\ running' = "none"
             /\ UNCHANGED <<remote, heap, cacheRef, cachedSha, lock, waiters, seen>>
        ELSE IF compute_month_winner(d, mk) = None
        THEN Finish(p)
        ELSE /\ loc' = [loc EXCEPT ![p].mk = mk, ![p].winner = compute_month_winner(d, mk)]
             /\ pc' = [pc EXCEPT ![p] = "fw_ping"]
             /\ running' = "none"
             /\ UNCHANGED <<remote, heap, cacheRef, cachedSha, lock, waiters, seen>>
  /\ UNCHANGED <<now, nextId, faults, sent>>

\* the admin has been told that the month was announced already
FwAlready(p) ==
  /\ running = "none"
  /\ pc[p] = "fw_already"
  /\ Finish(p)
  /\ UNCHANGED <<now, nextId, faults, sent>>

\* the ping is out: the monthly embed is sent
FwPing(p) ==
  /\ running = "none"
  /\ pc[p] = "fw_ping"
  /\ pc' = [pc EXCEPT ![p] = "fw_embed"]
  /\ UNCHANGED <<remote, heap, cacheRef, cachedSha, lock, waiters, running, loc,
                 now, nextId, faults, seen, sent>>

\* the embed is out: the winner's wins and last_monthly_announce[mk] are
\* written and save_data is called
FwEmbed(p) ==
  /\ running = "none"
  /\ pc[p] = "fw_embed"
  /\ LET d == Doc(p)
         w == Val(loc[p].winner).winner_id
         had == IF w \in DOMAIN d.wins THEN d.wins[w] ELSE 0
     IN MutateAndSave(p,
                      [d EXCEPT !.wins = (w :> had + 1) @@ @,
                                !.meta.last_monthly_announce = (loc[p].mk :> now) @@ @],
                      "fw_done")
  /\ sent' = IF loc[p].override THEN sent
             ELSE [sent EXCEPT !.announces = Announced(@, loc[p].mk)]
  /\ UNCHANGED <<now, nextId, faults>>

\* saved: the admin is told, the command is over
FwDone(p) ==
  /\ running = p
  /\ pc[p] = "fw_done"
  /\ Finish(p)
  /\ UNCHANGED <<now, nextId, faults, sent>>

(* ---------------------------------------------------------------------- *)
(* /controlpanel                                                           *)
(* ---------------------------------------------------------------------- *)
\* the daily_drop_limit option is a string: "all" in any case and with
\* blanks around it, digits (the number n), or anything else
LimitText(kind, n) == [kind |-> kind, n |-> n]

\* val = daily_drop_limit.strip().lower(); "all", or int(val) with n >= 1:
\* the value stored, None when the option is rejected
ParsedLimit(v) ==
  IF v.kind = "all" THEN Some(LimitAll)
  ELSE IF v.kind = "digits" /\ v.n >= 1 THEN Some(LimitN(v.n))
  ELSE None

\* the options written before daily_drop_limit is looked at: cooldown_hours
\* and glaze_enabled (approvals_enabled, the channels and admin_role are
\* written there in the same way)
BeforeLimit(d, a) ==
  [d EXCEPT !.config.cooldown_hours = IF a.cooldown_hours = None THEN @
                                      ELSE Clamp(1, 168, Val(a.cooldown_hours)),
            !.config.enabled = IF a.glaze_enabled = None THEN @
                               ELSE Val(a.glaze_enabled)]

\* daily_drop_limit (valid) and daily_drop_hour
FromLimit(d, a) ==
  [d EXCEPT !.config.daily_drop_limit = IF a.daily_drop_limit = None THEN @
                                        ELSE Val(ParsedLimit(Val(a.daily_drop_limit))),
            !.config.daily_drop_hour = IF a.daily_drop_hour = None THEN @
                                       ELSE Clamp(0, 23, Val(a.daily_drop_hour))]

\* `changes` is empty: no option was given
NoChanges(a) == \A k \in DOMAIN a : a[k] = None

\* /controlpanel with the options a, by a server administrator or not: the
\* permission check comes first, then load_data
ControlPanel(p, admin, a) ==
  /\ p \in Handlers
  /\ running = "none"
  /\ pc[p] = "idle"
  /\ IF admin
     THEN CallLoad(p, "cp_body", [loc EXCEPT ![p] = [LocInit EXCEPT !.op = "controlpanel",
                                                                  !.admin = TRUE,
                                                                  !.args = Some(a)]])
     ELSE /\ loc' = [loc EXCEPT ![p] = [LocInit EXCEPT !.op = "controlpanel",
                                                      !.args = Some(a)]]
          /\ pc' = [pc EXCEPT ![p] = "cp_denied"]
          /\ UNCHANGED <<remote, heap, cacheRef, cachedSha, lock, waiters, running, seen>>
  /\ UNCHANGED <<now, nextId, faults, sent>>

\* "Admins only." has been sent
CpDenied(p) ==
  /\ running = "none"
  /\ pc[p] = "cp_denied"
  /\ Finish(p)
  /\ UNCHANGED <<now, nextId, faults, sent>>

\* the options are written into `data` one after the other; an invalid
\* daily_drop_limit is answered and ends the command where it is found,
\* no option at all ends it too, else save_data is called
CpBody(p) ==
  /\ running = p
  /\ pc[p] = "cp_body"
  /\ LET a == Val(loc[p].args)
         d1 == BeforeLimit(Doc(p), a)
     IN IF a.daily_drop_limit # None /\ ParsedLimit(Val(a.daily_drop_limit)) = None
        THEN /\ loc' = [loc EXCEPT ![p] = LocInit]
             /\ heap' = Collect([heap EXCEPT ![loc[p].data] = Some(d1)], cacheRef, loc')
             /\ pc' = [pc EXCEPT ![p] = "idle"]
             /\ running' = "none"
             /\ UNCHANGED <<remote, cacheRef, cachedSha, lock, waiters, seen>>
        ELSE IF NoChanges(a)
        THEN Finish(p)
        ELSE MutateAndSave(p, FromLimit(d1, a), "cp_done")
  /\ UNCHANGED <<now, nextId, faults, sent>>

\* saved: the new settings are shown
CpDone(p) ==
  /\ running = p
  /\ pc[p] = "cp_done"
  /\ Finish(p)
  /\ UNCHANGED <<now, nextId, faults, sent>>

(* ---------------------------------------------------------------------- *)
(* /myglaze: open_my_glazes                                                *)
(* ---------------------------------------------------------------------- *)
\* member r presses "My glazes": `data, _ = await load_data()`
OpenMyGlazes(p, r) ==
  /\ p \in Handlers
  /\ Invoke(p, "mg_body", [LocInit EXCEPT !.op = "myglaze", !.rcpt = r])

\* glz is filtered and sorted, ids = [g["id"] for g in glz]; the answer
\* (no glazes yet, or the first glaze with the view) is sent
MgBody(p) ==
  /\ running = p
  /\ pc[p] = "mg_body"
  /\ LET glz == MyGlazes(Doc(p), loc[p].rcpt)
     IN loc' = [loc EXCEPT ![p].ids = [i \in DOMAIN glz |-> glz[i].id]]
  /\ pc' = [pc EXCEPT ![p] = "mg_send"]
  /\ running' = "none"
  /\ UNCHANGED <<remote, heap, cacheRef, cachedSha, lock, waiters, now, nextId,
                 faults, seen, sent>>

\* the answer is out
MgSent(p) ==
  /\ running = "none"
  /\ pc[p] = "mg_send"
  /\ Finish(p)
  /\ UNCHANGED <<now, nextId, faults, sent>>

\* a scheduler whose loop ends with the exception of a send
TickSendHalts ==
  /\ running = "none"
  /\ pc[Sched] \in {"tick_ping", "tick_embed", "tick_mping", "tick_membed"}
  /\ faults < MaxFaults
  /\ faults' = faults + 1
  /\ pc' = [pc EXCEPT ![Sched] = "stopped"]
  /\ UNCHANGED <<remote, heap, cacheRef, cachedSha, lock, waiters, running, loc,
                 now, nextId, seen, sent>>

\* a send to the drop channel raises (discord.HTTPException): the exception
\* leaves _drop_one_glaze and the loops and is caught and printed by the
\* `except Exception` of glaze_scheduler, which ends the iteration
TickSendFails ==
  /\ running = "none"
  /\ pc[Sched] \in {"tick_ping", "tick_embed", "tick_mping", "tick_membed"}
  /\ faults < MaxFaults
  /\ faults' = faults + 1
  /\ Finish(Sched)
  /\ UNCHANGED <<now, nextId, sent>>

\* the process is started again: the module is imported, _cached_data and
\* _cached_sha are None
Restart ==
  /\ running = "none"
  /\ \A p \in Procs : pc[p] = "idle"
  /\ cacheRef # 0
  /\ cacheRef' = 0
  /\ cachedSha' = None
  /\ heap' = [i \in ObjIds |-> None]
  /\ UNCHANGED <<remote, lock, waiters, running, pc, loc, now, nextId, faults, seen, sent>>

\* a minute of interest passes
Advance ==
  /\ running = "none"
  /\ now < LastInstant
  /\ now' = now + 1
  /\ UNCHANGED <<remote, heap, cacheRef, cachedSha, lock, waiters, running, pc, loc,
                 nextId, faults, seen, sent>>

(* ---------------------------------------------------------------------- *)
(* Initial states                                                          *)
(* ---------------------------------------------------------------------- *)
GIds == 1..(IF NQueue > NInit + MaxNew THEN NQueue ELSE NInit + MaxNew)

\* a guild that has been set up with /controlpanel: the three channels set
SetUp(d) ==
  [d EXCEPT !.config.drop_channel_id = Some(1),
            !.config.report_channel_id = Some(2),
            !.config.approval_channel_id = Some(3)]

\* glaze i of the initial document: sent before the run began, the older
\* the smaller i, the two first members taking turns
OldSender(i) == IF i % 2 = 1 THEN 1 ELSE 2
OldCreated(i) == FirstInstant + i - NInit - 1
OldGlaze(i, status) ==
  LET g == NewGlaze(i, OldSender(i), 3 - OldSender(i), OldCreated(i))
  IN IF status = "pending"
     THEN [PendingGlaze(g) EXCEPT !.approval_message = Some(i)]
     ELSE g

\* data["cooldowns"] after those glazes: each sender's latest /glaze
OldCooldowns ==
  [s \in {OldSender(i) : i \in 1..NInit} |->
     OldCreated(CHOOSE i \in 1..NInit :
                  /\ OldSender(i) = s
                  /\ \A j \in 1..NInit : OldSender(j) = s => j <= i)]

\* the bot starts at instant t: nothing cached, nobody running
InitAt(docs, t) ==
  /\ remote \in docs
  /\ heap = [i \in ObjIds |-> None]
  /\ cacheRef = 0
  /\ cachedSha = None
  /\ lock = "free"
  /\ waiters = <<>>
  /\ running = "none"
  /\ pc = [p \in Procs |-> "idle"]
  /\ loc = [p \in Procs |-> LocInit]
  /\ now = t
  /\ nextId = NInit + 1
  /\ faults = 0
  /\ seen = None
  /\ sent = [k \in {"drops", "declines", "scolds", "reports"} |-> [g \in GIds |-> 0]]
            @@ ("announces" :> <<>>)

InitWith(docs) == InitAt(docs, FirstInstant)

\* the store's part of a coroutine
StoreStep(p) ==
  \/ GrantedLoad(p)
  \/ GetOk(p)
  \/ GetFails(p)
  \/ GrantedSave(p)
  \/ PutOk(p)
  \/ PutConflict(p)
  \/ PutFails(p)

(* ---------------------------------------------------------------------- *)
(* Moderation: approvals are on, glazes wait for a moderator               *)
(* ---------------------------------------------------------------------- *)
ModDocs ==
  { Some([SetUp(DEFAULT_DATA) EXCEPT !.config.approvals_enabled = TRUE,
                                     !.cooldowns = OldCooldowns,
                                     !.glazes = [i \in 1..NInit |-> OldGlaze(i, st[i])]])
    : st \in [1..NInit -> {"pending", "approved"}] }

InitMod == InitWith(ModDocs)

\* two moderators' button presses on the glazes there are, and the sender
\* of glaze 1 trying /glaze again while still on cooldown (which drops the
\* cache and reloads before it is turned away)
NextMod ==
  \E p \in {"h1", "h2"} :
     \/ StoreStep(p)
     \/ \E gid \in GIds, admin \in BOOLEAN :
          \/ PressApprove(p, gid, admin)
          \/ PressDecline(p, gid, admin)
          \/ PressDelete(p, gid, admin)
     \/ Submit(p, OldSender(1), 3 - OldSender(1))
     \/ AdminCheck(p)
     \/ ApproveBody(p)
     \/ DeclineBody(p)
     \/ DeclineDone(p)
     \/ DeleteBody(p)
     \/ DeleteDone(p)
     \/ GlazeBody(p)

SpecMod == InitMod /\ [][NextMod]_vars

(* ---------------------------------------------------------------------- *)
(* Moderators racing: no backend failures, three interactions at a time    *)
(* ---------------------------------------------------------------------- *)
RaceDocs ==
  { Some([SetUp(DEFAULT_DATA) EXCEPT !.config.approvals_enabled = TRUE,
                                     !.cooldowns = OldCooldowns,
                                     !.glazes = [i \in 1..NInit |-> OldGlaze(i, "pending")]]) }

InitRace == InitWith(RaceDocs)

NextRace ==
  \E p \in Handlers :
     \/ GrantedLoad(p)
     \/ GetOk(p)
     \/ GrantedSave(p)
     \/ PutOk(p)
     \/ PutConflict(p)
     \/ \E gid \in GIds :
          \/ PressApprove(p, gid, TRUE)
          \/ PressDecline(p, gid, TRUE)
     \/ Submit(p, OldSender(1), 3 - OldSender(1))
     \/ AdminCheck(p)
     \/ ApproveBody(p)
     \/ DeclineBody(p)
     \/ DeclineDone(p)
     \/ GlazeBody(p)

SpecRace == InitRace /\ [][NextRace]_vars

(* ---------------------------------------------------------------------- *)
(* Drops: the scheduler, a /randomdrop and a moderator's delete, the       *)
(* backend answering every request                                         *)
(* ---------------------------------------------------------------------- *)
DropDocs ==
  { Some([SetUp(DEFAULT_DATA) EXCEPT !.cooldowns = OldCooldowns,
                                     !.glazes = [i \in 1..NInit |-> OldGlaze(i, "approved")]]) }

InitDrop == InitWith(DropDocs)

\* what the scheduler does
SchedStep ==
  \/ Tick
  \/ TickBody
  \/ TickPing
  \/ TickEmbed
  \/ TickMonthly
  \/ MonthlyPing
  \/ MonthlyEmbed

NextDrop ==
  \/ SchedStep
  \/ Advance
  \/ \E p \in Procs :
       \/ GrantedLoad(p)
       \/ GetOk(p)
       \/ GrantedSave(p)
       \/ PutOk(p)
       \/ PutConflict(p)
  \/ \E gid \in GIds : PressDelete("h2", gid, TRUE)
  \/ DeleteBody("h2")
  \/ DeleteDone("h2")
  \/ RandomDrop("h1", TRUE)
  \/ RdBody("h1")
  \/ RdChannel("h1")
  \/ RdPing("h1")
  \/ RdEmbed("h1")

SpecDrop == InitDrop /\ [][NextDrop]_vars

(* ---------------------------------------------------------------------- *)
(* The scheduler alone, the clock passing, over the documents it may find  *)
(* ---------------------------------------------------------------------- *)
\* glaze i of such a document (appended in the order of their creation):
\* waiting for its drop, dropped already, deleted, or not yet approved
QueueGlaze(i, kind) ==
  LET g == NewGlaze(i, OldSender(i), 3 - OldSender(i), FirstInstant - NQueue - 1 + i)
  IN CASE kind = "waiting" -> g
       [] kind = "dropped" -> [g EXCEPT !.dropped_at = Some(g.created_at)]
       [] kind = "deleted" -> [g EXCEPT !.deleted = TRUE]
       [] kind = "pending" -> PendingGlaze(g)

SchedDocs ==
  { Some([SetUp(DEFAULT_DATA) EXCEPT
            !.config.daily_drop_hour = h,
            !.config.daily_drop_limit = l,
            !.glazes = [i \in 1..NQueue |-> QueueGlaze(i, kind[i])]])
    : h \in {0, DEFAULT_DAILY_DROP_HOUR, MONTHLY_DROP_HOUR},
      l \in {LimitN(n) : n \in 1..(NQueue - 1)} \cup {LimitAll},
      kind \in [1..NQueue -> {"waiting", "dropped", "deleted", "pending"}] }

InitSched == InitWith(SchedDocs)

NextSched ==
  \/ SchedStep
  \/ Advance
  \/ GetOk(Sched)
  \/ PutOk(Sched)
  \/ PutConflict(Sched)

SpecSched == InitSched /\ [][NextSched]_vars

(* ---------------------------------------------------------------------- *)
(* The scheduler alone, with sends to the drop channel that may fail       *)
(* ---------------------------------------------------------------------- *)
NextFlaky ==
  \/ NextSched
  \/ TickSendFails

SpecFlaky == InitSched /\ [][NextFlaky]_vars

(* ---------------------------------------------------------------------- *)
(* The scheduler alone around the monthly time: from 18:00 of the day      *)
(* before the month's last day on                                           *)
(* ---------------------------------------------------------------------- *)
\* the documents it may find: the daily drop at its default hour or at the
\* monthly hour, the month announced already (by /force_winner) or not
MonthlyDocs ==
  { Some([SetUp(DEFAULT_DATA) EXCEPT
            !.config.daily_drop_hour = h,
            !.meta.last_monthly_announce = ann,
            !.glazes = [i \in 1..NQueue |-> QueueGlaze(i, kind[i])]])
    : h \in {DEFAULT_DAILY_DROP_HOUR, MONTHLY_DROP_HOUR},
      ann \in {<<>>, MonthOf(DateOf(FirstInstant)) :> (FirstInstant - 1)},
      kind \in [1..NQueue -> {"waiting", "dropped", "deleted", "pending"}] }

InitMonthly == InitAt(MonthlyDocs, FirstInstant - 1)

SpecMonthly == InitMonthly /\ [][NextSched]_vars

(* ---------------------------------------------------------------------- *)
(* /force_winner, while another admin forces the current month's          *)
(* announcement with override                                              *)
(* ---------------------------------------------------------------------- *)
\* the months the model's glazes are of: the one the run is in and the one
\* before
Months == {MonthOf(DateOf(FirstInstant)) - 1, MonthOf(DateOf(FirstInstant))}

\* the documents they may find: glazes of both months, deleted or not (the
\* latest is not), and any of the months announced already
ForceDocs ==
  { Some([SetUp(DEFAULT_DATA) EXCEPT
            !.meta.last_monthly_announce = [m \in ms |-> FirstInstant - 1],
            !.glazes = [i \in 1..NQueue |-> QueueGlaze(i, kind[i])]])
    : ms \in SUBSET Months,
      kind \in {k \in [1..NQueue -> {"waiting", "deleted"}] : k[NQueue] = "waiting"} }

InitForce == InitWith(ForceDocs)

FwStep(p) ==
  \/ FwAdmin(p)
  \/ FwChannel(p)
  \/ FwBody(p)
  \/ FwAlready(p)
  \/ FwPing(p)
  \/ FwEmbed(p)
  \/ FwDone(p)

\* an admin's or another member's /force_winner, with any arguments
ForceAny(p) ==
  /\ p = "h1"
  /\ \E admin \in BOOLEAN, override \in BOOLEAN,
        month \in {None, MonthNamed(MonthOf(DateOf(FirstInstant))), MonthInvalid} :
       ForceWinner(p, admin, month, override)

\* an admin's /force_winner for the current month with override
ForceAgain(p) ==
  /\ p = "h2"
  /\ ForceWinner(p, TRUE, MonthNamed(MonthOf(DateOf(FirstInstant))), TRUE)

NextForce ==
  \E p \in {"h1", "h2"} :
     \/ GrantedLoad(p)
     \/ GetOk(p)
     \/ GrantedSave(p)
     \/ PutOk(p)
     \/ PutConflict(p)
     \/ FwStep(p)
     \/ ForceAny(p)
     \/ ForceAgain(p)

SpecForce == InitForce /\ [][NextForce]_vars

(* ---------------------------------------------------------------------- *)
(* The monthly tally: the scheduler at 18:00 of the month's last day, over *)
(* the glazes it may have to count                                         *)
(* ---------------------------------------------------------------------- *)
\* glaze i of such a document: to recipient r, created at t, approved (and
\* waiting for its drop), deleted by a moderator, or not yet approved
TallyGlaze(i, r, t, kind) ==
  LET g == NewGlaze(i, IF r = 1 THEN 2 ELSE 1, r, t)
  IN CASE kind = "waiting" -> g
       [] kind = "deleted" -> [g EXCEPT !.deleted = TRUE]
       [] kind = "pending" -> PendingGlaze(g)

\* the instants the glazes were created at: the three before the run, the
\* first of them in the month before (in UTC)
TallyTimes == (FirstInstant - 3)..(FirstInstant - 1)

\* glazes are appended as they are created, so their timestamps do not
\* decrease along the list (the wall clock may give the same one twice)
TallyDocs ==
  { Some([SetUp(DEFAULT_DATA) EXCEPT
            !.glazes = [i \in 1..NTally |-> TallyGlaze(i, r[i], t[i], kind[i])]])
    : r \in [1..NTally -> Users],
      t \in {f \in [1..NTally -> TallyTimes] : \A i \in 1..(NTally - 1) : f[i] <= f[i + 1]},
      kind \in [1..NTally -> {"waiting", "deleted", "pending"}] }

InitTally == InitAt(TallyDocs, LastInstant)

NextTally ==
  \/ Tick
  \/ GetOk(Sched)
  \/ TickBody
  \/ TickMonthly
  \/ MonthlyPing
  \/ MonthlyEmbed
  \/ PutOk(Sched)

SpecTally == InitTally /\ [][NextTally]_vars

(* ---------------------------------------------------------------------- *)
(* /glaze by one member at a time, the clock passing                       *)
(* ---------------------------------------------------------------------- *)
\* the documents it may find: the cooldown as /controlpanel may have set
\* it, glazes and approvals switched on or off, the sender of the glaze
\* there is having sent it at 18:00 of the day before
SubmitDocs ==
  { Some([SetUp(DEFAULT_DATA) EXCEPT
            !.config.cooldown_hours = h,
            !.config.enabled = en,
            !.config.approvals_enabled = ap,
            !.cooldowns = OldCooldowns,
            !.glazes = [i \in 1..NInit |-> OldGlaze(i, "approved")]])
    : h \in {1, DEFAULT_DATA.config.cooldown_hours, 24}, en \in BOOLEAN, ap \in BOOLEAN }

Texts == {Text(b, k) : b \in {MinText - 1, MinText, MaxText, MaxText + 1}, k \in {0, 1}}

InitSubmit == InitWith(SubmitDocs)

GlazeStep(p) ==
  \/ GlazeChecks(p)
  \/ GlazeRoast(p)
  \/ GlazeBody(p)
  \/ GlazePending(p)
  \/ GlazeChannel(p)
  \/ GlazePosted(p)
  \/ GlazeMessage(p)

NextSubmit ==
  \/ Advance
  \/ GetOk("h1")
  \/ PutOk("h1")
  \/ \E s \in Users, r \in Users, text \in Texts : GlazeCmd("h1", s, r, text)
  \/ GlazeStep("h1")

SpecSubmit == InitSubmit /\ [][NextSubmit]_vars

(* ---------------------------------------------------------------------- *)
(* /glaze by two members at the same time                                  *)
(* ---------------------------------------------------------------------- *)
\* the documents they may find: approvals on or off, the cooldown at one
\* hour (nobody is on cooldown when the run begins)
PairDocs ==
  { Some([SetUp(DEFAULT_DATA) EXCEPT
            !.config.cooldown_hours = 1,
            !.config.approvals_enabled = ap,
            !.cooldowns = OldCooldowns,
            !.glazes = [i \in 1..NInit |-> OldGlaze(i, "approved")]])
    : ap \in BOOLEAN }

InitPair == InitWith(PairDocs)

\* the first member glazes the second and the second the first
GlazeEachOther(p) ==
  \/ p = "h1" /\ GlazeCmd(p, 1, 2, Text(MinText, 0))
  \/ p = "h2" /\ GlazeCmd(p, 2, 1, Text(MaxText, 1))

NextPair ==
  \E p \in {"h1", "h2"} :
     \/ GrantedLoad(p)
     \/ GetOk(p)
     \/ GrantedSave(p)
     \/ PutOk(p)
     \/ PutConflict(p)
     \/ GlazeEachOther(p)
     \/ GlazeChecks(p)
     \/ GlazeBody(p)
     \/ GlazePending(p)
     \/ GlazeChannel(p)
     \/ GlazePosted(p)
     \/ GlazeMessage(p)

SpecPair == InitPair /\ [][NextPair]_vars

(* ---------------------------------------------------------------------- *)
(* /glaze and /myglaze by one member at a time, the clock passing          *)
(* ---------------------------------------------------------------------- *)
\* the members that submit: those of Users and one more, who only sends
Senders == 1..(NUsers + 1)

\* the documents they may find: approvals on or off, the cooldown at one
\* hour
ListDocs ==
  { Some([SetUp(DEFAULT_DATA) EXCEPT
            !.config.cooldown_hours = 1,
            !.config.approvals_enabled = ap,
            !.cooldowns = OldCooldowns,
            !.glazes = [i \in 1..NInit |-> OldGlaze(i, "approved")]])
    : ap \in BOOLEAN }

InitList == InitWith(ListDocs)

NextList ==
  \/ Advance
  \/ GetOk("h1")
  \/ PutOk("h1")
  \/ \E s \in Senders, r \in Users : GlazeCmd("h1", s, r, Text(MinText, 0))
  \/ GlazeStep("h1")
  \/ \E r \in Users : OpenMyGlazes("h1", r)
  \/ MgBody("h1")
  \/ MgSent("h1")

SpecList == InitList /\ [][NextList]_vars

(* ---------------------------------------------------------------------- *)
(* /glaze by one member at a time while a moderator approves or declines,  *)
(* the clock passing                                                       *)
(* ---------------------------------------------------------------------- *)
\* the documents they may find: approvals on, the cooldown at one hour or
\* at a day, glazes switched on or off
CoolDocs ==
  { Some([SetUp(DEFAULT_DATA) EXCEPT
            !.config.cooldown_hours = h,
            !.config.enabled = en,
            !.config.approvals_enabled = TRUE,
            !.cooldowns = OldCooldowns,
            !.glazes = [i \in 1..NInit |-> OldGlaze(i, "approved")]])
    : h \in {1, 24}, en \in BOOLEAN }

InitCool == InitWith(CoolDocs)

NextCool ==
  \/ Advance
  \/ \E s \in Users, r \in Users, b \in {MinText - 1, MinText} : GlazeCmd("h1", s, r, Text(b, 0))
  \/ GlazeStep("h1")
  \/ \E gid \in GIds : PressApprove("h2", gid, TRUE) \/ PressDecline("h2", gid, TRUE)
  \/ AdminCheck("h2")
  \/ ApproveBody("h2")
  \/ DeclineBody("h2")
  \/ DeclineDone("h2")
  \/ \E p \in {"h1", "h2"} :
       \/ GrantedLoad(p)
       \/ GetOk(p)
       \/ GrantedSave(p)
       \/ PutOk(p)
       \/ PutConflict(p)

SpecCool == InitCool /\ [][NextCool]_vars

(* ---------------------------------------------------------------------- *)
(* /glaze by one member at a time and /myglaze by another, the backend     *)
(* failing a save at times                                                  *)
(* ---------------------------------------------------------------------- *)
NextLost ==
  \/ Advance
  \/ \E s \in Users, r \in Users : GlazeCmd("h1", s, r, Text(MinText, 0))
  \/ GlazeStep("h1")
  \/ \E r \in Users : OpenMyGlazes("h2", r)
  \/ MgBody("h2")
  \/ MgSent("h2")
  \/ \E p \in {"h1", "h2"} :
       \/ GrantedLoad(p)
       \/ GetOk(p)
       \/ GrantedSave(p)
       \/ PutOk(p)
       \/ PutFails(p)

SpecLost == InitList /\ [][NextLost]_vars

(* ---------------------------------------------------------------------- *)
(* The Report button, pressed by one recipient at a time                   *)
(* ---------------------------------------------------------------------- *)
\* the documents it may find: the report channel set or not, the glazes
\* approved, deleted or not yet approved
ReportDocs ==
  { Some([SetUp(DEFAULT_DATA) EXCEPT
            !.config.report_channel_id = ch,
            !.glazes = [i \in 1..NQueue |-> QueueGlaze(i, kind[i])]])
    : ch \in {None, Some(2)},
      kind \in [1..NQueue -> {"waiting", "deleted", "pending"}] }

InitReport == InitWith(ReportDocs)

NextReport ==
  \/ \E gid \in GIds : PressReport("h1", gid)
  \/ ReportCurrent("h1")
  \/ ReportChannel("h1")
  \/ ReportBody("h1")
  \/ ReportDone("h1")
  \/ GetOk("h1")
  \/ PutOk("h1")

SpecReport == InitReport /\ [][NextReport]_vars

(* ---------------------------------------------------------------------- *)
(* The scheduler alone, a tick failing at its load, at a send or at its    *)
(* save.  tasks.loop starts an iteration every minute, the backend answers *)
(* every request and the clock goes on.                                    *)
(* ---------------------------------------------------------------------- *)
\* the documents it may find: the daily drop at midnight, at its default
\* hour or at the monthly hour, one glaze a day or all, the glazes waiting
\* or deleted
HaltDocs ==
  { Some([SetUp(DEFAULT_DATA) EXCEPT
            !.config.daily_drop_hour = h,
            !.config.daily_drop_limit = l,
            !.glazes = [i \in 1..NQueue |-> QueueGlaze(i, kind[i])]])
    : h \in {0, DEFAULT_DAILY_DROP_HOUR, MONTHLY_DROP_HOUR},
      l \in {LimitN(1), LimitAll},
      kind \in [1..NQueue -> {"waiting", "deleted"}] }

InitHalt == InitWith(HaltDocs)

NextHalt ==
  \/ NextFlaky
  \/ GetFails(Sched)
  \/ PutFails(Sched)

\* what the scheduler and the backend do when nothing fails
SchedRuns ==
  \/ SchedStep
  \/ GetOk(Sched)
  \/ PutOk(Sched)
  \/ PutConflict(Sched)

SpecHalt ==
  /\ InitHalt
  /\ [][NextHalt]_vars
  /\ WF_vars(SchedRuns)
  /\ SF_vars(Advance)

(* ---------------------------------------------------------------------- *)
(* Restarts: the file as an older version of the bot left it, /glaze by    *)
(* one member at a time, the process starting again at times               *)
(* ---------------------------------------------------------------------- *)
\* a document with something of everything
FullDoc ==
  [SetUp(DEFAULT_DATA) EXCEPT
     !.config.cooldown_hours = 1,
     !.meta.last_daily_drop_date = Some(DateOf(FirstInstant) - 1),
     !.meta.last_monthly_announce = (MonthOf(DateOf(FirstInstant)) - 1) :> (FirstInstant - 1),
     !.cooldowns = OldCooldowns,
     !.glazes = [i \in 1..NInit |-> OldGlaze(i, "approved")],
     !.wins = 1 :> 1]

Restrict(f, S) == [k \in S |-> f[k]]

\* the files of older versions: any of the top-level keys missing, keys of
\* config or of meta missing, and a top-level key this version does not
\* know
OldSchemaDocs ==
  { Some((IF legacy THEN "legacy" :> 1 ELSE <<>>) @@
         [k \in top |->
            IF k = "config" THEN Restrict(FullDoc.config, (DOMAIN FullDoc.config) \ cgone)
            ELSE IF k = "meta" THEN Restrict(FullDoc.meta, (DOMAIN FullDoc.meta) \ mgone)
            ELSE FullDoc[k]])
    : top \in SUBSET (DOMAIN FullDoc),
      cgone \in {{}, {"cooldown_hours"}, {"approvals_enabled", "approval_channel_id"}},
      mgone \in {{}, {"last_monthly_announce"}, {"last_daily_drop_date"}},
      legacy \in BOOLEAN }

InitRestart == InitWith(OldSchemaDocs)

NextRestart ==
  \/ Advance
  \/ Restart
  \/ \E s \in Users, r \in Users : GlazeCmd("h1", s, r, Text(MinText, 0))
  \/ GlazeChecks("h1")
  \/ GlazeRoast("h1")
  \/ GlazeBody("h1")
  \/ GetOk("h1")
  \/ PutOk("h1")

SpecRestart == InitRestart /\ [][NextRestart]_vars

(* ---------------------------------------------------------------------- *)
(* The first loads: the file may not exist yet, a member's /glaze and the  *)
(* scheduler's tick load at about the same time, the backend failing once  *)
(* ---------------------------------------------------------------------- *)
\* no file, or the file of a guild that has been set up
CreateDocs == {None} \cup DropDocs

InitCreate == InitWith(CreateDocs)

NextCreate ==
  \/ Tick
  \/ TickBody
  \/ TickMonthly
  \/ GlazeCmd("h1", 1, 2, Text(MinText, 0))
  \/ GlazeChecks("h1")
  \/ GlazeBody("h1")
  \/ \E p \in {"h1", Sched} :
       \/ StoreStep(p)
       \/ GetMissing(p)

SpecCreate == InitCreate /\ [][NextCreate]_vars

\* the event loop runs every coroutine that is ready, and a request handed
\* to a thread ends with an answer or an exception
CreateRuns ==
  \/ TickBody
  \/ TickMonthly
  \/ GlazeChecks("h1")
  \/ GlazeBody("h1")
  \/ \E p \in {"h1", Sched} :
       \/ StoreStep(p)
       \/ GetMissing(p)

SpecCreateFair == SpecCreate /\ WF_vars(CreateRuns)

(* ---------------------------------------------------------------------- *)
(* The daily drop of a batch while a moderator deletes a glaze             *)
(* ---------------------------------------------------------------------- *)
\* the documents they may find: two glazes a day or all, every glaze
\* waiting for its drop
BatchDocs ==
  { Some([SetUp(DEFAULT_DATA) EXCEPT
            !.config.daily_drop_hour = h,
            !.config.daily_drop_limit = l,
            !.glazes = [i \in 1..NQueue |-> QueueGlaze(i, "waiting")]])
    : h \in {0, DEFAULT_DAILY_DROP_HOUR}, l \in {LimitN(2), LimitAll} }

InitBatch == InitWith(BatchDocs)

NextBatch ==
  \/ SchedStep
  \/ Advance
  \/ \E gid \in GIds : PressDelete("h2", gid, TRUE)
  \/ DeleteBody("h2")
  \/ DeleteDone("h2")
  \/ \E p \in {"h2", Sched} :
       \/ GrantedLoad(p)
       \/ GetOk(p)
       \/ GrantedSave(p)
       \/ PutOk(p)
       \/ PutConflict(p)

SpecBatch == InitBatch /\ [][NextBatch]_vars

(* ---------------------------------------------------------------------- *)
(* The monthly announcement: the scheduler at 18:00 of the month's last    *)
(* day while an admin runs /force_winner for that month, without override  *)
(* ---------------------------------------------------------------------- *)
\* the documents they may find are those of /force_winner above
InitAnnounce == InitAt(ForceDocs, LastInstant)

NextAnnounce ==
  \/ Tick
  \/ TickBody
  \/ TickMonthly
  \/ MonthlyPing
  \/ MonthlyEmbed
  \/ ForceWinner("h1", TRUE, MonthNamed(MonthOf(DateOf(LastInstant))), FALSE)
  \/ FwStep("h1")
  \/ \E p \in {"h1", Sched} :
       \/ GrantedLoad(p)
       \/ GetOk(p)
       \/ GrantedSave(p)
       \/ PutOk(p)
       \/ PutConflict(p)

SpecAnnounce == InitAnnounce /\ [][NextAnnounce]_vars

(* ---------------------------------------------------------------------- *)
(* /controlpanel, by administrators and others, with any options, while a  *)
(* moderator deletes glazes                                                *)
(* ---------------------------------------------------------------------- *)
\* the options of one invocation
PanelArgs ==
  [cooldown_hours : {None, Some(200)},
   glaze_enabled : {None, Some(FALSE)},
   daily_drop_limit : {None, Some(LimitText("all", 0)),
                       Some(LimitText("digits", 0)), Some(LimitText("other", 0))},
   daily_drop_hour : {None, Some(0)}]

InitPanel == InitWith(DropDocs)

NextPanel ==
  \/ \E admin \in BOOLEAN, a \in PanelArgs : ControlPanel("h1", admin, a)
  \/ CpDenied("h1")
  \/ CpBody("h1")
  \/ CpDone("h1")
  \/ \E gid \in 1..NInit : PressDelete("h2", gid, TRUE)
  \/ DeleteBody("h2")
  \/ DeleteDone("h2")
  \/ \E p \in {"h1", "h2"} :
       \/ GrantedLoad(p)
       \/ GetOk(p)
       \/ GrantedSave(p)
       \/ PutOk(p)
       \/ PutConflict(p)

SpecPanel == InitPanel /\ [][NextPanel]_vars

(* ---------------------------------------------------------------------- *)
(* /glaze with approvals on, the approval channel set or not               *)
(* ---------------------------------------------------------------------- *)
\* the documents it may find: /controlpanel has switched approvals on and
\* has been given an approval channel or none
PendingDocs ==
  { Some([SetUp(DEFAULT_DATA) EXCEPT
            !.config.cooldown_hours = 1,
            !.config.approvals_enabled = TRUE,
            !.config.approval_channel_id = ch])
    : ch \in {None, Some(3)} }

InitPending == InitWith(PendingDocs)

NextPending ==
  \/ Advance
  \/ GetOk("h1")
  \/ PutOk("h1")
  \/ \E s \in Senders, r \in Users : GlazeCmd("h1", s, r, Text(MinText, 0))
  \/ GlazeStep("h1")

SpecPending == InitPending /\ [][NextPending]_vars

(* ---------------------------------------------------------------------- *)
(* Glaze switched off: the scheduler and /randomdrop at the daily drop     *)
(* time, while an administrator switches it on with /controlpanel          *)
(* ---------------------------------------------------------------------- *)
\* the documents they may find: config.enabled off, the glazes waiting
\* for their drop
ToggleDocs ==
  { Some([SetUp(DEFAULT_DATA) EXCEPT
            !.config.enabled = FALSE,
            !.glazes = [i \in 1..NInit |-> OldGlaze(i, "approved")]]) }

\* glaze_enabled=True, alone or with a daily_drop_limit that is no number
ToggleArgs ==
  [cooldown_hours : {None},
   glaze_enabled : {Some(TRUE)},
   daily_drop_limit : {None, Some(LimitText("other", 0))},
   daily_drop_hour : {None}]

InitToggle == InitAt(ToggleDocs, FirstInstant + 1)

NextToggle ==
  \/ SchedStep
  \/ Advance
  \/ RandomDrop("h2", TRUE)
  \/ RdBody("h2")
  \/ RdChannel("h2")
  \/ RdPing("h2")
  \/ RdEmbed("h2")
  \/ \E a \in ToggleArgs : ControlPanel("h1", TRUE, a)
  \/ CpBody("h1")
  \/ CpDone("h1")
  \/ \E p \in {"h1", "h2", Sched} :
       \/ GrantedLoad(p)
       \/ GetOk(p)
       \/ GrantedSave(p)
       \/ PutOk(p)
       \/ PutConflict(p)

SpecToggle == InitToggle /\ [][NextToggle]_vars

(* ---------------------------------------------------------------------- *)
(* Claims about moderation                                                 *)
(* ---------------------------------------------------------------------- *)
StatusIn(d, gid) == IF HasGlaze(d, gid) THEN Glaze(d, gid).approval_status ELSE "none"
DeletedIn(d, gid) == HasGlaze(d, gid) /\ Glaze(d, gid).deleted

\* C1: a glaze that a load_data has handed out as approved or declined is
\* handed out with that approval_status by every later load_data.
C1_StatusTerminal ==
  [][\A g \in GIds :
       (seen # None /\ StatusIn(Val(seen), g) \in {"approved", "declined"})
         => StatusIn(Val(seen'), g) = StatusIn(Val(seen), g)]_vars

\* a decline of glaze g has been saved
DeclineSaved(g) == StatusIn(Val(remote), g) = "declined"

\* the handler p, which has just loaded the document, is about to look at
\* the approval_status of glaze g
AtStatusCheck(p, g) ==
  /\ running = p
  /\ pc[p] \in {"approve_body", "decline_body"}
  /\ loc[p].gid = g

\* the "already processed" answer: the handler returns from its status
\* check, the document it loaded, the cache and the file as they were, and
\* nothing sent
AlreadyProcessed(p) ==
  /\ pc'[p] = "idle"
  /\ StatusIn(Doc(p), loc[p].gid) # "pending"
  /\ remote' = remote
  /\ cacheRef' = cacheRef
  /\ cachedSha' = cachedSha
  /\ \A i \in ObjIds : heap'[i] \in {heap[i], None}
  /\ sent' = sent

\* C2: the decline button on a pending glaze leaves it declined and deleted
\* in the document that is saved, and once that save has gone through every
\* approve or decline of the same glaze answers "already processed",
\* changes nothing and notifies nobody.
C2_DeclineImpliesDelete ==
  [][\A p \in Handlers, g \in GIds :
       /\ (/\ pc[p] = "decline_body"
           /\ loc[p].gid = g
           /\ StatusIn(Doc(p), g) = "pending"
           /\ pc'[p] # "decline_body")
          => (/\ StatusIn(Val(heap'[loc'[p].sdata]), g) = "declined"
              /\ DeletedIn(Val(heap'[loc'[p].sdata]), g))
       /\ (/\ pc[p] = "put"
           /\ loc[p].op = "decline"
           /\ loc[p].gid = g
           /\ pc'[p] = "decline_done")
          => (DeclineSaved(g)' /\ DeletedIn(Val(remote'), g))
       /\ DeclineSaved(g) => (DeclineSaved(g)' /\ DeletedIn(Val(remote'), g))
       /\ (DeclineSaved(g) /\ AtStatusCheck(p, g) /\ pc'[p] # pc[p])
          => AlreadyProcessed(p)]_vars

\* a handler is at the status check of a glaze whose decline has been saved
C2_Witness ==
  \E p \in Handlers, g \in GIds :
     /\ DeclineSaved(g)
     /\ AtStatusCheck(p, g)
     /\ sent.declines[g] = 1

\* C3: a glaze that a load_data has handed out as deleted is in no listing,
\* candidate set or count of the document any later load_data hands out.
C3_DeletionPermanent ==
  [][\A g \in GIds :
       (seen # None /\ DeletedIn(Val(seen), g))
         => (~Listed(Val(seen), g) /\ ~Listed(Val(seen'), g))]_vars

\* an approve or decline ends in save_data's RuntimeError
EndsInFailure(p) ==
  /\ loc[p].op \in {"approve", "decline"}
  /\ pc[p] = "put"
  /\ ~ShaMatches(loc[p].ssha)
  /\ pc'[p] = "idle"

\* C6: of the approves and declines of one pending glaze that run at the
\* same time one takes effect: the approval_status in the file is written
\* once, no approve or decline ends in a failure, and the sender is told of
\* a decline at most once.
C6_OneTakesEffect ==
  [][\A g \in GIds :
       /\ StatusIn(Val(remote), g) \in {"approved", "declined"}
            => StatusIn(Val(remote'), g) = StatusIn(Val(remote), g)
       /\ \A p \in Handlers : loc[p].gid = g => ~EndsInFailure(p)
       /\ sent'.declines[g] <= 1]_vars

(* ---------------------------------------------------------------------- *)
(* Claims about the store                                                  *)
(* ---------------------------------------------------------------------- *)
\* the PUT of p's save_data is answered 200/201, or rejected for its sha
SaveSucceeds(p) ==
  /\ pc[p] = "put"
  /\ ShaMatches(loc[p].ssha)
  /\ pc'[p] # "put"
  /\ faults' = faults
SaveRejected(p) ==
  /\ pc[p] = "put"
  /\ ~ShaMatches(loc[p].ssha)
  /\ pc'[p] # "put"

\* C4: a save_data whose sha is not the file's raises and leaves the file,
\* the cached document and the cached sha as they were; a save_data that
\* succeeds leaves the cache holding the document that was written and the
\* sha the backend returned for it.
C4_SaveIsCompareAndSwap ==
  [][\A p \in Procs :
       /\ SaveRejected(p)
            => /\ pc'[p] = "idle"
               /\ remote' = remote
               /\ cachedSha' = cachedSha
               /\ cacheRef' = cacheRef
               /\ cacheRef # 0 => heap'[cacheRef] = heap[cacheRef]
       /\ SaveSucceeds(p)
            => /\ remote' = loc[p].pay
               /\ cachedSha' = Some(ShaOf(Val(remote')))
               /\ heap'[cacheRef'] = remote']_vars

\* p is between the load_data and the save_data of a mutation
Busy(p) ==
  /\ pc[p] \in {"save_wait", "put", "rd_ping", "rd_embed", "tick_ping", "tick_embed",
                "tick_mping", "tick_membed"}
  /\ ~loc[p].creating

\* a load_data of q returns in this step
LoadEnds(q) ==
  \/ /\ pc[q] \in {"idle", "get", "load_wait", "admin_check", "rd_body",
                   "glaze_pending", "report_current", "report_channel"}
     /\ pc'[q] \notin {pc[q], "idle", "get", "load_wait", "put", "save_wait"}
  \/ /\ pc[q] = "put"
     /\ loc[q].creating
     /\ pc'[q] \notin {"put", "idle"}

\* C5: while an operation is between its load_data and the end of its
\* save_data, no load_data of another operation returns and no save_data of
\* another operation writes.
C5_ExclusiveReadModifyWrite ==
  [][\A p \in Procs, q \in Procs :
       (p # q /\ Busy(p)) => (~LoadEnds(q) /\ ~SaveSucceeds(q))]_vars

(* ---------------------------------------------------------------------- *)
(* Claims about drops                                                      *)
(* ---------------------------------------------------------------------- *)
DroppedIn(d, gid) == IF HasGlaze(d, gid) THEN Glaze(d, gid).dropped_at ELSE None

\* glaze g is sent to the drop channel in this step (which also stamps it)
Delivered(g) == sent'.drops[g] # sent.drops[g]

\* C9: a glaze is delivered to the drop channel and stamped only while the
\* file has it approved and not deleted.
C9_OnlyApprovedUndeletedDropped ==
  [][\A g \in GIds :
       Delivered(g)
         => /\ StatusIn(Val(remote), g) = "approved"
            /\ ~DeletedIn(Val(remote), g)]_vars

\* C10: a dropped_at that the file has for a glaze stays what it is.
C10_DroppedAtWrittenOnce ==
  [][\A g \in GIds :
       DroppedIn(Val(remote), g) # None
         => DroppedIn(Val(remote'), g) = DroppedIn(Val(remote), g)]_vars

\* the tick decides to run the daily drop in this step
RunsDaily ==
  /\ pc[Sched] = "tick_body"
  /\ pc'[Sched] \in {"tick_ping", "put", "save_wait"}

\* C7: a tick runs the daily drop only when the London hour is the
\* configured daily_drop_hour and last_daily_drop_date is not today, and
\* the scheduler delivers nothing on a day whose daily drop is on file.
C7_OneDailyReleasePerDay ==
  [][/\ RunsDaily
          => /\ HourOf(now) = Clamp(0, 23, Doc(Sched).config.daily_drop_hour)
             /\ Doc(Sched).meta.last_daily_drop_date # Some(DateOf(now))
     /\ \A g \in GIds :
          (Delivered(g) /\ pc[Sched] = "tick_embed")
            => Val(remote).meta.last_daily_drop_date # Some(DateOf(now))]_vars

\* the tick has dropped its batch and calls save_data for it
BatchEnds ==
  /\ pc[Sched] \in {"tick_body", "tick_embed"}
  /\ pc'[Sched] \in {"put", "save_wait"}

\* C8: when the daily drop has run on a document with k candidates and
\* daily_drop_limit n, the min(n, k) oldest candidates (all k for "all")
\* have dropped_at set, the others are candidates still and no other glaze
\* was stamped.
C8_LimitSemantics ==
  [][BatchEnds =>
       LET d0 == Val(seen)
           d1 == Val(heap'[loc'[Sched].sdata])
           K == Ids(Pending(d0))
           k == Cardinality(K)
           limit == d0.config.daily_drop_limit
           m == IF limit.all THEN k ELSE IF limit.n < k THEN limit.n ELSE k
           D == {g \in K : DroppedIn(d1, g) # None}
       IN /\ Cardinality(D) = m
          /\ \A a \in D, b \in K \ D : Glaze(d0, a).created_at <= Glaze(d0, b).created_at
          /\ Ids(Pending(d1)) = K \ D
          /\ \A g \in Ids(d0.glazes) \ K : DroppedIn(d1, g) = DroppedIn(d0, g)]_vars

\* the batch of a tick that found three candidates under a limit of two is
\* being saved: two stamped, one waiting
C8_Witness ==
  /\ pc[Sched] = "put"
  /\ loc[Sched].ret = "tick_monthly"
  /\ Val(seen).config.daily_drop_limit = LimitN(2)
  /\ Len(Pending(Val(seen))) = 3
  /\ Len(Pending(Val(loc[Sched].pay))) = 1

(* ---------------------------------------------------------------------- *)
(* Claims about failures of delivery                                       *)
(* ---------------------------------------------------------------------- *)
\* C11: when the delivery of one glaze of a daily batch fails, the tick
\* still ends with the glazes that were to follow it marked dropped in the
\* file and with the day written to meta.last_daily_drop_date.
C11_FailureIsolated ==
  [][(pc[Sched] \in {"tick_ping", "tick_embed"} /\ pc'[Sched] = "idle")
       => /\ IsSome(remote')
          /\ Val(remote').meta.last_daily_drop_date = Some(DateOf(loc[Sched].t0))
          /\ \A i \in 2..Len(loc[Sched].todo) :
                DroppedIn(Val(remote'), loc[Sched].todo[i]) # None]_vars

(* ---------------------------------------------------------------------- *)
(* Claims about the monthly announcement                                   *)
(* ---------------------------------------------------------------------- *)
\* wins and last_monthly_announce of a document
Tally(d) == <<d.wins, d.meta.last_monthly_announce>>

\* instant t is 18:00 of the last day of a month, and month mk has no entry
\* in last_monthly_announce of d
AnnounceDue(d, t) ==
  /\ DateOf(t) % DaysPerMonth = DaysPerMonth - 1
  /\ HourOf(t) = 18
  /\ \A m \in DOMAIN d.meta.last_monthly_announce : m # DateOf(t) \div DaysPerMonth

\* C12: a tick begins the monthly announcement only at 18:00 of the last
\* day of the month and with no last_monthly_announce entry for the month;
\* and wins and last_monthly_announce change, in the file or in a document
\* in memory, only in a tick that announces.
C12_MonthlyGate ==
  [][/\ (pc[Sched] # "tick_mping" /\ pc'[Sched] = "tick_mping")
          => AnnounceDue(Doc(Sched), loc'[Sched].t0)
     /\ (IsSome(remote) /\ IsSome(remote') /\ Tally(Val(remote')) # Tally(Val(remote)))
          => pc[Sched] = "put" /\ loc[Sched].winner # None
     /\ \A o \in ObjIds :
          (IsSome(heap[o]) /\ IsSome(heap'[o]) /\ Tally(Val(heap'[o])) # Tally(Val(heap[o])))
          => pc[Sched] = "tick_membed" /\ o = loc[Sched].data]_vars

\* the monthly embed is being sent, the file not having the month's entry
C12_Witness ==
  /\ pc[Sched] = "tick_membed"
  /\ IsSome(remote)
  /\ AnnounceDue(Val(remote), loc[Sched].t0)

\* C13: the tick that has delivered the monthly announcement ends with the
\* file holding last_monthly_announce[mk] and the winner's wins one greater
\* than they were.
C13_AnnouncementPersisted ==
  [][(pc[Sched] = "put" /\ loc[Sched].winner # None /\ pc'[Sched] = "idle")
       => LET w == Val(loc[Sched].winner).winner_id
              mk == MonthOf(DateOf(loc[Sched].t0))
              Wins(d) == IF w \in DOMAIN d.wins THEN d.wins[w] ELSE 0
          IN /\ mk \in DOMAIN Val(remote').meta.last_monthly_announce
             /\ Wins(Val(remote')) = Wins(Val(remote)) + 1]_vars

\* C14: a /force_winner without override that comes to its check while the
\* file has last_monthly_announce[mk] answers "already announced": it sends
\* no announcement, and neither the file nor wins or last_monthly_announce
\* of a document in memory changes.
C14_MarkerRespected ==
  [][\A p \in Handlers :
       LET mk == IF loc[p].month = None THEN (DateOf(now) \div DaysPerMonth) - 1
                 ELSE Val(loc[p].month).mk
       IN (/\ pc[p] = "fw_body" /\ pc'[p] # "fw_body"
           /\ ~loc[p].override
           /\ (loc[p].month = None \/ Val(loc[p].month).ok)
           /\ IsSome(remote)
           /\ mk \in DOMAIN Val(remote).meta.last_monthly_announce)
          => /\ pc'[p] = "fw_already"
             /\ remote' = remote
             /\ \A o \in ObjIds :
                  IsSome(heap[o]) /\ IsSome(heap'[o]) => Tally(Val(heap'[o])) = Tally(Val(heap[o]))]_vars

\* a /force_winner without override has been turned away: the month it
\* names, which has glazes to tally, is announced in the file
C14_Witness ==
  \E p \in Handlers :
     /\ pc[p] = "fw_already"
     /\ ~loc[p].override
     /\ IsSome(remote)
     /\ loc[p].mk \in DOMAIN Val(remote).meta.last_monthly_announce
     /\ compute_month_winner(Val(remote), loc[p].mk) # None

(* ---------------------------------------------------------------------- *)
(* Claims about compute_month_winner                                       *)
(* ---------------------------------------------------------------------- *)
\* the documents there are: the file and the dicts in memory
DocsAround ==
  {Val(x) : x \in {y \in {remote} \cup {heap[o] : o \in ObjIds} : IsSome(y)}}

\* the glazes (by their place in the list) that count for month mk, and
\* how many of them recipient r received
Eligible(d, mk) ==
  {i \in DOMAIN d.glazes :
     d.glazes[i].month_key = mk /\ d.glazes[i].approved /\ ~d.glazes[i].deleted}
Received(d, mk, r) ==
  Cardinality({i \in Eligible(d, mk) : d.glazes[i].recipient_id = r})

\* C17: compute_month_winner returns None exactly when the month has no
\* approved undeleted glaze; else it returns a recipient and a count, the
\* count being the number of eligible glazes that recipient received and
\* no recipient having received more.
C17_WinnerHasMost ==
  \A d \in DocsAround, mk \in Months :
    LET w == compute_month_winner(d, mk)
    IN IF Eligible(d, mk) = {} THEN w = None
       ELSE /\ w # None
            /\ Val(w).count = Received(d, mk, Val(w).winner_id)
            /\ \A r \in Users : Received(d, mk, r) <= Val(w).count

\* the scheduler announces a winner with two glazes, the document holding
\* a deleted glaze, a pending one and one of the month before as well
C17_Witness ==
  /\ pc[Sched] = "tick_membed"
  /\ Val(loc[Sched].winner).count = 2
  /\ \E i, j, k \in DOMAIN Doc(Sched).glazes :
       /\ Doc(Sched).glazes[i].deleted
       /\ ~Doc(Sched).glazes[j].approved
       /\ Doc(Sched).glazes[k].month_key # MonthOf(DateOf(loc[Sched].t0))

\* C16: of the recipients tied at the most glazes, the winner that the
\* scheduler got from compute_month_winner and announces is the one whose
\* count reaches that number first when the eligible glazes are replayed in
\* the order of their creation timestamps (glazes with equal timestamps in
\* the order of the list).
C16_TieBreak ==
  pc[Sched] = "tick_mping" =>
    LET d == Doc(Sched)
        mk == MonthOf(DateOf(loc[Sched].t0))
        w == Val(loc[Sched].winner)
        Own(r) == {i \in Eligible(d, mk) : d.glazes[i].recipient_id = r}
        Before(i, j) ==
          \/ d.glazes[i].created_at < d.glazes[j].created_at
          \/ d.glazes[i].created_at = d.glazes[j].created_at /\ i < j
        Last(r) == CHOOSE i \in Own(r) : \A j \in Own(r) \ {i} : Before(j, i)
    IN \A q \in Users \ {w.winner_id} :
         Received(d, mk, q) = w.count => Before(Last(w.winner_id), Last(q))

(* ---------------------------------------------------------------------- *)
(* Claims about /randomdrop                                                *)
(* ---------------------------------------------------------------------- *)
\* C15: when /randomdrop sets dropped_at, it changes the document it holds
\* in the dropped_at of one glaze only, and that glaze is a candidate then:
\* approved, not deleted and not dropped; meta.last_daily_drop_date and
\* every other glaze are as they were.
C15_RandomDropFrame ==
  [][\A p \in Handlers :
       (pc[p] = "rd_embed" /\ pc'[p] # "rd_embed")
       => LET d0 == Doc(p)
              d1 == Val(heap'[loc[p].data])
          IN /\ d1.meta = d0.meta
             /\ DOMAIN d1.glazes = DOMAIN d0.glazes
             /\ \E i \in DOMAIN d0.glazes :
                  /\ d0.glazes[i].approved
                  /\ ~d0.glazes[i].deleted
                  /\ d0.glazes[i].dropped_at = None
                  /\ d1.glazes[i].dropped_at # None
                  /\ \A j \in DOMAIN d0.glazes \ {i} : d1.glazes[j] = d0.glazes[j]]_vars

(* ---------------------------------------------------------------------- *)
(* Claims about /glaze                                                     *)
(* ---------------------------------------------------------------------- *)
\* the cached document and its token
Cached == <<IF cacheRef = 0 THEN None ELSE heap[cacheRef], cachedSha>>

\* C18: a /glaze that has passed the other checks is turned away as on
\* cooldown exactly when cooldowns[sender] exists and less than the
\* configured cooldown_hours lie between it and now; then nothing is
\* appended, written or saved; else the glaze is appended, cooldowns[sender]
\* set and save_data called.
C18_Cooldown ==
  [][\A p \in Handlers :
       (pc[p] = "glaze_body" /\ pc'[p] # "glaze_body" /\ Doc(p).config.enabled)
       => LET d == Doc(p)
              s == loc[p].sender
              d1 == Val(heap'[loc[p].data])
          IN IF /\ s \in DOMAIN d.cooldowns
                /\ HoursAt(now) - HoursAt(d.cooldowns[s]) < d.config.cooldown_hours
             THEN /\ pc'[p] = "idle"
                  /\ remote' = remote
                  /\ d1 = d
             ELSE /\ pc'[p] \in {"put", "save_wait"}
                  /\ Len(d1.glazes) = Len(d.glazes) + 1
                  /\ d1.cooldowns[s] = now]_vars

\* a member on cooldown with 24 hours configured is turned away, 23 hours
\* after their last glaze
C18_Witness ==
  \E p \in Handlers :
     /\ pc[p] = "glaze_body"
     /\ Doc(p).config.enabled
     /\ Doc(p).config.cooldown_hours = 24
     /\ loc[p].sender \in DOMAIN Doc(p).cooldowns
     /\ HoursAt(now) - HoursAt(Doc(p).cooldowns[loc[p].sender]) = 23

\* C19: a /glaze to oneself ends with the roast, and from its invocation
\* to its end neither the file nor the cached document and token nor the
\* uuid counter changes.
C19_SelfTarget ==
  [][\A p \in Handlers :
       (loc[p].op = "glaze" /\ loc[p].sender = loc[p].rcpt /\ pc'[p] # pc[p])
       => /\ pc[p] = "glaze_defer" => pc'[p] = "glaze_roast"
          /\ pc[p] = "glaze_roast" => pc'[p] = "idle"
          /\ pc[p] \in {"glaze_defer", "glaze_roast"}
          /\ remote' = remote
          /\ Cached' = Cached
          /\ nextId' = nextId]_vars

\* the roast goes out to a member who is on cooldown and whose text is too
\* short, glazes being switched off, with a document in the cache
C19_Witness ==
  \E p \in Handlers :
     /\ pc[p] = "glaze_roast"
     /\ loc[p].sender = loc[p].rcpt
     /\ Val(loc[p].text).body < 10
     /\ cacheRef # 0
     /\ ~Val(heap[cacheRef]).config.enabled
     /\ loc[p].sender \in DOMAIN Val(heap[cacheRef]).cooldowns

\* C20: the save of a /glaze that puts its glaze into the file adds that
\* one glaze to the file's list and nothing else: with an id the file did
\* not have, not dropped, not deleted, not reported, pending if
\* approvals_enabled is on and approved otherwise; and cooldowns[sender] is
\* the glaze's created_at in the same file.
C20_SubmitAppendsOne ==
  [][\A p \in Handlers :
       (/\ loc[p].op = "glaze" /\ pc[p] = "put" /\ pc'[p] # "put"
        /\ remote' # remote
        /\ ~HasGlaze(Val(remote), loc[p].gid))
       => LET d0 == Val(remote)
              d1 == Val(remote')
              g == d1.glazes[Len(d1.glazes)]
          IN /\ Len(d1.glazes) = Len(d0.glazes) + 1
             /\ SubSeq(d1.glazes, 1, Len(d0.glazes)) = d0.glazes
             /\ g.id = loc[p].gid
             /\ g.sender_id = loc[p].sender
             /\ g.dropped_at = None /\ ~g.deleted /\ ~g.reported
             /\ g.approval_status = IF d0.config.approvals_enabled THEN "pending" ELSE "approved"
             /\ g.approved = ~d0.config.approvals_enabled
             /\ d1.cooldowns[loc[p].sender] = g.created_at]_vars

(* ---------------------------------------------------------------------- *)
(* Claims about /myglaze                                                   *)
(* ---------------------------------------------------------------------- *)
\* C21: when the glaze that /glaze appended last is approved (approvals
\* being off) and is to recipient r, the listing that open_my_glazes builds
\* for r has that glaze as its first element.
C21_NewestFirst ==
  [][\A p \in Handlers :
       (pc[p] = "mg_body" /\ pc'[p] # "mg_body")
       => LET d == Doc(p)
              last == d.glazes[Len(d.glazes)]
          IN (/\ last.id > NInit
              /\ ~d.config.approvals_enabled
              /\ last.approved /\ ~last.deleted
              /\ last.recipient_id = loc[p].rcpt)
             => (loc'[p].ids # <<>> /\ loc'[p].ids[1] = last.id)]_vars

(* ---------------------------------------------------------------------- *)
(* Claims about cooldowns                                                  *)
(* ---------------------------------------------------------------------- *)
\* every sender of a glaze of d has a cooldown entry, and every entry is
\* the created_at of the glaze that its sender appended last
CooldownsMatch(d) ==
  /\ \A i \in DOMAIN d.glazes : d.glazes[i].sender_id \in DOMAIN d.cooldowns
  /\ \A s \in DOMAIN d.cooldowns :
       \E i \in DOMAIN d.glazes :
          /\ d.glazes[i].sender_id = s
          /\ \A j \in DOMAIN d.glazes : d.glazes[j].sender_id = s => j <= i
          /\ d.cooldowns[s] = d.glazes[i].created_at

\* C22: in the file and in every document in memory each cooldown entry is
\* the created_at of the latest glaze of its sender; the cooldowns or the
\* list of a document in memory change only where /glaze accepts a
\* submission, which appends one glaze of the sender and sets the sender's
\* entry to its created_at (a /glaze that is turned away, an approve and a
\* decline leave both alone).
C22_CooldownWithAppend ==
  [][/\ \A d \in DocsAround : CooldownsMatch(d)
     /\ \A o \in ObjIds :
          (/\ IsSome(heap[o]) /\ IsSome(heap'[o])
           /\ \/ Val(heap'[o]).cooldowns # Val(heap[o]).cooldowns
              \/ Len(Val(heap'[o]).glazes) # Len(Val(heap[o]).glazes))
          => \E p \in Handlers :
               LET d0 == Val(heap[o])
                   d1 == Val(heap'[o])
                   g == d1.glazes[Len(d1.glazes)]
               IN /\ pc[p] = "glaze_body" /\ pc'[p] \in {"put", "save_wait"}
                  /\ o = loc[p].data
                  /\ d0.config.enabled
                  /\ Len(d1.glazes) = Len(d0.glazes) + 1
                  /\ g.sender_id = loc[p].sender
                  /\ g.created_at = now
                  /\ DOMAIN d1.cooldowns = DOMAIN d0.cooldowns \cup {g.sender_id}
                  /\ \A s \in DOMAIN d1.cooldowns :
                       d1.cooldowns[s] = IF s = g.sender_id THEN now ELSE d0.cooldowns[s]]_vars

\* the file holds a glaze of the run that a moderator has declined, its
\* sender's cooldown entry being its created_at
C22_Witness ==
  /\ IsSome(remote)
  /\ \E i \in DOMAIN Val(remote).glazes :
       LET g == Val(remote).glazes[i]
       IN /\ g.id > NInit
          /\ g.approval_status = "declined"
          /\ g.sender_id \in DOMAIN Val(remote).cooldowns
          /\ Val(remote).cooldowns[g.sender_id] = g.created_at

(* ---------------------------------------------------------------------- *)
(* Claims about the list of glazes                                         *)
(* ---------------------------------------------------------------------- *)
\* C23: every glaze of a document that load_data has handed out is, with
\* the same id, sender, recipient, created_at and month_key, in the
\* document that the next load_data hands out.
C23_ListOnlyGrows ==
  [][seen # None =>
       \A i \in DOMAIN Val(seen).glazes :
          \E j \in DOMAIN Val(seen').glazes :
             LET g == Val(seen).glazes[i]
                 h == Val(seen').glazes[j]
             IN /\ h.id = g.id
                /\ h.sender_id = g.sender_id
                /\ h.recipient_id = g.recipient_id
                /\ h.created_at = g.created_at
                /\ h.month_key = g.month_key]_vars

(* ---------------------------------------------------------------------- *)
(* Claims about reports                                                    *)
(* ---------------------------------------------------------------------- *)
\* C24: a report of a glaze that the file has as reported, its report
\* having gone to the moderators, changes neither the file nor what is
\* sent: no second post to the report channel.
C24_ReportIdempotent ==
  [][\A p \in Handlers :
       (/\ loc[p].op = "report"
        /\ IsSome(remote)
        /\ HasGlaze(Val(remote), loc[p].gid)
        /\ Glaze(Val(remote), loc[p].gid).reported
        /\ sent.reports[loc[p].gid] >= 1)
       => (remote' = remote /\ sent' = sent)]_vars

(* ---------------------------------------------------------------------- *)
(* Claims about the notifications of moderation                            *)
(* ---------------------------------------------------------------------- *)
\* C25: the sender is told of a decline or scolded for a deleted glaze
\* only by a handler whose save_data has succeeded, the file then having
\* the glaze declined and deleted (or deleted); whether the DM goes out or
\* fails, that handler ends there without a failure and without touching
\* the file, and the file keeps the glaze deleted from then on.
C25_NotifyAfterSave ==
  [][\A g \in GIds :
       /\ sent'.declines[g] # sent.declines[g]
            => \E p \in Handlers :
                 /\ pc[p] = "decline_done" /\ loc[p].gid = g
                 /\ StatusIn(Val(remote), g) = "declined" /\ DeletedIn(Val(remote), g)
       /\ sent'.scolds[g] # sent.scolds[g]
            => \E p \in Handlers :
                 /\ pc[p] = "delete_done" /\ loc[p].gid = g
                 /\ DeletedIn(Val(remote), g)
       /\ \A p \in Handlers :
            (pc[p] \in {"decline_done", "delete_done"} /\ loc[p].gid = g /\ pc'[p] # pc[p])
            => /\ pc'[p] = "idle"
               /\ faults' = faults
               /\ remote' = remote
               /\ DeletedIn(Val(remote), g)
               /\ loc[p].op = "decline" => StatusIn(Val(remote), g) = "declined"
       /\ (IsSome(remote) /\ DeletedIn(Val(remote), g)) => DeletedIn(Val(remote'), g)]_vars

\* a decline has been saved and its handler has ended without the DM
\* having gone out
C25_Witness ==
  \E g \in GIds :
     /\ DeclineSaved(g)
     /\ DeletedIn(Val(remote), g)
     /\ sent.declines[g] = 0
     /\ \A p \in Handlers : pc[p] = "idle"

(* ---------------------------------------------------------------------- *)
(* Claims about the scheduler's loop                                       *)
(* ---------------------------------------------------------------------- *)
\* a tick has failed at an instant before 18:00 of the month's last day,
\* and the file has what the monthly announcement needs then: glazes
\* enabled, the drop channel, a glaze of the month that counts and no
\* last_monthly_announce entry for the month
FailedBeforeDue ==
  /\ faults = MaxFaults
  /\ now < LastInstant
  /\ IsSome(remote)
  /\ Val(remote).config.enabled
  /\ Val(remote).config.drop_channel_id # None
  /\ MonthOf(DateOf(LastInstant)) \notin DOMAIN Val(remote).meta.last_monthly_announce
  /\ compute_month_winner(Val(remote), MonthOf(DateOf(LastInstant))) # None

\* the tick of 18:00 of the month's last day has sent the announcement
Announcing == now = LastInstant /\ pc[Sched] = "tick_membed"

\* C26: between two ticks the scheduler holds neither the loop nor the
\* lock (so that the next tick begins), also after a tick that failed; and
\* after a failed tick the monthly announcement that is due at a later
\* tick is sent.
C26_SchedulerSurvives ==
  /\ [](pc[Sched] = "idle" => (running = "none" /\ lock = "free" /\ waiters = <<>>))
  /\ (FailedBeforeDue ~> Announcing)

\* after a failed tick the announcement is being sent
C26_Witness ==
  /\ faults = MaxFaults
  /\ Announcing

(* ---------------------------------------------------------------------- *)
(* Claims about the round trip through the file                            *)
(* ---------------------------------------------------------------------- *)
\* what the loaded document l keeps of the file's document r: every
\* top-level key with its value, the keys of config and of meta one by one
Kept(r, l) ==
  \A k \in DOMAIN r :
     /\ k \in DOMAIN l
     /\ IF k \in DictKeys
        THEN \A kk \in DOMAIN r[k] : kk \in DOMAIN l[k] /\ l[k][kk] = r[k][kk]
        ELSE l[k] = r[k]

\* every key of DEFAULT_DATA (and of its config and meta) is in l, with
\* the default where r does not have it
Filled(r, l) ==
  \A k \in DOMAIN DEFAULT_DATA :
     /\ k \in DOMAIN l
     /\ k \notin DOMAIN r => l[k] = DEFAULT_DATA[k]
     /\ k \in DictKeys =>
          \A kk \in DOMAIN DEFAULT_DATA[k] :
             /\ kk \in DOMAIN l[k]
             /\ (k \in DOMAIN r /\ kk \notin DOMAIN r[k]) => l[k][kk] = DEFAULT_DATA[k][kk]

\* d lacks no key of DEFAULT_DATA
Complete(d) ==
  /\ DOMAIN DEFAULT_DATA \subseteq DOMAIN d
  /\ \A k \in DictKeys : DOMAIN DEFAULT_DATA[k] \subseteq DOMAIN d[k]

\* C27: the document that load_data builds from the file keeps every key
\* and value of the file (unknown top-level keys too), has the default for
\* every key of DEFAULT_DATA that the file lacks, and merging it again
\* changes nothing; a save_data writes the document as it is, complete, and
\* from a complete file load_data builds the very document that is in it.
C27_RoundTrip ==
  [][\A p \in Procs :
       /\ (pc[p] = "get" /\ pc'[p] # "get" /\ IsSome(remote))
          => LET r == Val(remote)
                 l == Val(heap'[cacheRef'])
             IN /\ Kept(r, l)
                /\ Filled(r, l)
                /\ DOMAIN l = (DOMAIN r) \cup (DOMAIN DEFAULT_DATA)
                /\ MergeDefaults(l) = l
                /\ Complete(r) => l = r
       /\ (pc[p] = "put" /\ pc'[p] # "put" /\ remote' # remote)
          => /\ remote' = heap[loc[p].sdata]
             /\ Complete(Val(remote'))]_vars

\* after a restart load_data has built, from the file that a /glaze saved,
\* the document that is in it: with the glaze, the cooldown, a win and a
\* month's announcement on file, and a key this version does not know
C27_Witness ==
  /\ seen # None
  /\ seen = remote
  /\ "legacy" \in DOMAIN Val(seen)
  /\ Len(Val(seen).glazes) > NInit
  /\ DOMAIN Val(seen).cooldowns # {}
  /\ DOMAIN Val(seen).wins # {}
  /\ DOMAIN Val(seen).meta.last_monthly_announce # {}
  /\ \A p \in Procs : pc[p] = "idle"

(* ---------------------------------------------------------------------- *)
(* Claims about load_data                                                  *)
(* ---------------------------------------------------------------------- *)
\* C28: a GET is made only with the cache empty, and a load_data that
\* finds the cache filled returns the cached document and token, the file
\* untouched; a GET answered 404 makes load_data call save_data with the
\* default document and no sha, and when that PUT has succeeded the file
\* holds the default document; a GET that fails otherwise ends load_data,
\* the cache empty and nothing requested again.
C28_LoadContract ==
  [][\A p \in Procs :
       /\ (pc[p] # "get" /\ pc'[p] = "get") => cacheRef' = 0
       /\ (pc[p] \in {"idle", "load_wait"} /\ pc'[p] \in {"tick_body", "glaze_body"})
          => /\ cacheRef # 0
             /\ loc'[p].data = cacheRef /\ loc'[p].sha = cachedSha
             /\ remote' = remote /\ cacheRef' = cacheRef /\ cachedSha' = cachedSha
       /\ (pc[p] = "get" /\ remote = None /\ faults' = faults /\ pc'[p] # "get")
          => /\ pc'[p] \in {"put", "save_wait"}
             /\ loc'[p].ssha = None
             /\ heap'[loc'[p].sdata] = Some(DEFAULT_DATA)
             /\ remote' = remote
       /\ (pc[p] = "put" /\ loc[p].creating /\ faults' = faults /\ pc'[p] \notin {"put", "idle"})
          => /\ remote = None
             /\ remote' = Some(DEFAULT_DATA)
             /\ Doc(p)' = DEFAULT_DATA /\ loc'[p].sha = None
       /\ (pc[p] = "get" /\ faults' # faults)
          => /\ pc'[p] = "idle"
             /\ cacheRef' = 0 /\ cachedSha' = None
             /\ remote' = remote]_vars

(* ---------------------------------------------------------------------- *)
(* Claims about the daily batch in the file                                *)
(* ---------------------------------------------------------------------- *)
\* C29: the file never holds a glaze that the daily drop of a day has
\* stamped without holding that day as meta.last_daily_drop_date, and so
\* never the stamps of a part of a batch only.
C29_BatchAtomic ==
  IsSome(remote) =>
    \A i \in DOMAIN Val(remote).glazes :
       LET at == Val(remote).glazes[i].dropped_at
       IN (at # None /\ Val(at) >= FirstInstant)
          => Val(remote).meta.last_daily_drop_date = Some(DateOf(Val(at)))

(* ---------------------------------------------------------------------- *)
(* Claims about _store_lock                                                *)
(* ---------------------------------------------------------------------- *)
\* who has a request to GitHub in flight
InFlight == { p \in Procs : pc[p] \in {"get", "put"} }

\* C30: at most one request to GitHub is in flight and whoever has one holds
\* _store_lock; the lock is given up when the request ends, with an answer
\* or with a failure; the lock is held only by a coroutine inside load_data
\* or save_data, never by one that waits for it in the queue, and the save
\* of load_data's create path always comes to its end.
C30_OneInFlight ==
  /\ [](/\ Cardinality(InFlight) <= 1
        /\ \A p \in InFlight : lock = p
        /\ lock # "free" =>
             /\ pc[lock] \in {"get", "put", "load_wait", "save_wait"}
             /\ \A i \in DOMAIN waiters : waiters[i] # lock)
  /\ [][\A p \in InFlight :
          pc'[p] \notin {"get", "put"} =>
            /\ lock' # p
            /\ lock' = ReleasedLock
            /\ waiters' = IF pc'[p] = "save_wait"
                          THEN Append(ReleasedWaiters, p)
                          ELSE ReleasedWaiters]_vars
  /\ \A p \in {"h1", Sched} : loc[p].creating ~> ~loc[p].creating

\* the file is being created by one coroutine while another waits for the
\* lock
C30_Witness ==
  \E p \in InFlight :
     /\ loc[p].creating
     /\ pc[p] = "put"
     /\ waiters # <<>>

(* ---------------------------------------------------------------------- *)
(* Claims about the monthly announcement and the month of a glaze          *)
(* ---------------------------------------------------------------------- *)
\* C31: without `override`, the winner of a month is announced in the drop
\* channel (and the winner's wins raised) at most once, whatever the
\* scheduler's ticks and the /force_winner commands do to each other.
C31_AnnouncedOnce ==
  \A mk \in DOMAIN sent.announces : sent.announces[mk] <= 1

\* the approved, undeleted glazes created in London's month mk before t
CreatedInMonth(d, mk, t) ==
  { d.glazes[i].id : i \in { j \in DOMAIN d.glazes :
                               /\ d.glazes[j].approved
                               /\ ~d.glazes[j].deleted
                               /\ MonthOf(DateOf(d.glazes[j].created_at)) = mk
                               /\ d.glazes[j].created_at < t } }

\* C32: the month_key of a glaze is the month of its creation in the
\* scheduler's timezone, so the tally of 18:00 of a month's last day counts
\* the approved, undeleted glazes created in that month before that
\* instant, and no others.
C32_TallyMonth ==
  (/\ running = Sched
   /\ pc[Sched] = "tick_monthly"
   /\ is_last_day_of_month_london(loc[Sched].t0)
   /\ HourOf(loc[Sched].t0) = MONTHLY_DROP_HOUR)
  => LET mk == MonthOf(DateOf(loc[Sched].t0))
     IN Ids(MonthGlazes(Doc(Sched), mk))
          = CreatedInMonth(Doc(Sched), mk, loc[Sched].t0)

(* ---------------------------------------------------------------------- *)
(* Claims about what reaches the drop channel                              *)
(* ---------------------------------------------------------------------- *)
\* C33: no glaze is posted to the drop channel twice, whatever the
\* scheduler's ticks and the /randomdrop commands do to each other.
C33_DroppedOnce ==
  \A g \in GIds : sent.drops[g] <= 1

(* ---------------------------------------------------------------------- *)
(* Claims about the cache                                                  *)
(* ---------------------------------------------------------------------- *)
\* no operation is under way
Quiet == \A p \in Procs : pc[p] = "idle"

\* C34: while no operation is under way, _cached_data (when set) is the
\* file's document as load_data reads it and _cached_sha the file's sha:
\* an operation that failed or returned early has left nothing in the
\* cache.
C34_CacheIsFile ==
  (Quiet /\ cacheRef # 0) =>
    /\ IsSome(remote)
    /\ heap[cacheRef] = Some(MergeDefaults(Val(remote)))
    /\ cachedSha = Some(ShaOf(Val(remote)))

\* the sha of the file as it is, None while there is no file
RemoteSha(r) == IF r = None THEN None ELSE Some(ShaOf(Val(r)))

\* p's load_data returns in this step: from the cache, from the GET, or
\* from the save of the file it has created
LoadReturns(p) ==
  /\ running' = p
  /\ \/ pc[p] \in {"idle", "get", "load_wait"}
     \/ pc[p] = "put" /\ loc[p].creating

\* C35: the sha that load_data returns is the sha of the file as it is at
\* that moment, also when load_data has just created the file.
C35_LoadedShaIsCurrent ==
  [][\A p \in Procs :
       LoadReturns(p) => loc'[p].sha = RemoteSha(remote')]_vars

(* ---------------------------------------------------------------------- *)
(* Claims about /controlpanel                                              *)
(* ---------------------------------------------------------------------- *)
\* p's /controlpanel ends in this step with "Admins only." or with
\* "Invalid daily_drop_limit"
Rejects(p) ==
  /\ loc[p].op = "controlpanel"
  /\ pc'[p] = "idle"
  /\ \/ pc[p] = "cp_denied"
     \/ /\ pc[p] = "cp_body"
        /\ Val(loc[p].args).daily_drop_limit # None
        /\ ParsedLimit(Val(Val(loc[p].args).daily_drop_limit)) = None

\* C36: a /controlpanel that is rejected, for an invalid daily_drop_limit
\* or for want of the administrator permission, has changed nothing in the
\* cached document nor in the file, whatever other options it was given.
C36_RejectedChangesNothing ==
  [][\A p \in Handlers :
       Rejects(p) => (Cached' = Cached /\ remote' = remote)]_vars

(* ---------------------------------------------------------------------- *)
(* Claims about glazes that wait for approval                              *)
(* ---------------------------------------------------------------------- *)
\* the /glaze that submitted glaze gid is still under way
Submitting(gid) ==
  \E p \in Handlers : loc[p].op = "glaze" /\ loc[p].gid = gid /\ pc[p] # "idle"

\* C37: once its /glaze is over, a glaze that waits for approval has its
\* approval message recorded in the file, whether an approval channel is
\* set or not: setup_hook can attach the buttons again.
C37_PendingHasMessage ==
  IsSome(remote) =>
    \A i \in DOMAIN Val(remote).glazes :
       LET g == Val(remote).glazes[i]
       IN (g.approval_status = "pending" /\ ~Submitting(g.id))
          => g.approval_message # None

(* ---------------------------------------------------------------------- *)
(* Claims about the glaze_enabled switch                                   *)
(* ---------------------------------------------------------------------- *)
\* config.enabled of the file is off
SwitchedOff(r) == IsSome(r) /\ ~Val(r).config.enabled

\* C38: while config.enabled is off nothing is posted to the drop channel
\* and nothing but the configuration changes in the file: no dropped_at,
\* no last_daily_drop_date, no last_monthly_announce, no wins; the glazes
\* that wait are dropped only once it has been switched on.
C38_OffMeansNoDrop ==
  [][SwitchedOff(remote) =>
       /\ sent'.drops = sent.drops
       /\ sent'.announces = sent.announces
       /\ IsSome(remote')
       /\ [Val(remote') EXCEPT !.config = Val(remote).config] = Val(remote)]_vars

====
